---- MODULE Spec2Model ----
(***************************************************************************)
(* CarPi: the in-process event bus (carpi/event_bus.py) and the Bluetooth  *)
(* pairing agent and manager (carpi/modules/bluetooth/bt.py) on top of the *)
(* trust store (carpi/storage/db.py).                                      *)
(*                                                                         *)
(* Scheduling is asyncio's: one activity runs at a time and gives up       *)
(* control only at an await that really suspends.  Every action below is   *)
(* the code between two such suspensions.  EventBus._lock is never held    *)
(* across a suspension (the bodies of its `async with` blocks contain no   *)
(* await), so acquiring it never suspends and it is always free between    *)
(* actions; it needs no variable.                                          *)
(***************************************************************************)
EXTENDS Integers, Sequences, FiniteSets, TLC

\* ------------------------------------------------------------------ bounds
MaxPublishes == 3
MaxCap == 1
MaxEvents == 1
MaxResponses == 2
MaxObjects == 2

\* --------------------------------------------------------- program constants
\* subscribe(topic, max_queue_size: int = 100)
DefaultMaxQueueSize == 100

\* ----------------------------------------------------------------- state
VARIABLES
  topic_to_queues,   \* EventBus._topic_to_queues: topic -> list of queue ids
  queues,            \* the live asyncio.Queue objects: id -> [items, maxsize, topic]
  closing,           \* subscribe() generators dropped by their consumer, aclose() scheduled
  published,         \* history: every publish of the bus workload, in order
  dropped,           \* history: queue id -> events publish dropped for it
  sub,               \* the bus workload's consumers
  bt_devices,        \* table bt_devices: address -> trusted, one entry per row
  contacts,          \* table contacts: device address -> its rows, in id order
  cb,                \* the agent's gating callback invocations
  mgr,               \* BluetoothManager: _task/_run position, _sysbus, _session_bus
  cmdloop,           \* handle_bt_commands
  callloop,          \* handle_call_commands
  statusloop,        \* handle_bt_status
  env_n,             \* events published so far by the consumers of the manager
  obex,              \* outside the process: the object-transfer daemon's open
                     \* sessions and the transient files that exist in /tmp
  probe              \* a direct call of a pure function: its arguments and result

busvars == <<topic_to_queues, queues, closing>>
obsvars == <<published, dropped, sub, obex, probe>>
btvars == <<bt_devices, contacts, cb, mgr, cmdloop, callloop, statusloop, env_n,
            obex, probe>>
vars == <<topic_to_queues, queues, closing, published, dropped, sub,
          bt_devices, contacts, cb, mgr, cmdloop, callloop, statusloop, env_n,
          obex, probe>>

Subs == {"s1", "s2"}
Topics == {"t1", "t2"}
Caps == 0..MaxCap

Range(s) == {s[i] : i \in 1..Len(s)}

Min(a, b) == IF a < b THEN a ELSE b

Take(s, n) == SubSeq(s, 1, Min(n, Len(s)))

RECURSIVE RemoveFirst(_, _)
\* list.remove(x): drops the first occurrence of x
RemoveFirst(s, x) ==
  IF s = <<>> THEN <<>>
  ELSE IF Head(s) = x THEN Tail(s)
  ELSE <<Head(s)>> \o RemoveFirst(Tail(s), x)

\* ------------------------------------------------------------ EventBus
\* asyncio.Queue.full(): a maxsize <= 0 means an unbounded queue
Full(q) == q.maxsize > 0 /\ Len(q.items) >= q.maxsize

\* mutant: a full queue evicts its oldest event to make room
PutNowaitDropOldest(q, ev) ==
  IF Full(q) THEN [q EXCEPT !.items = Append(Tail(@), ev)]
  ELSE [q EXCEPT !.items = Append(@, ev)]

\* mutant: the event is put at the head of the queue
PutNowaitFront(q, ev) ==
  IF Full(q) THEN q ELSE [q EXCEPT !.items = <<ev>> \o @]

\* queue.put_nowait(event) inside try / except QueueFull: pass
PutNowait(q, ev) ==
  IF Full(q) THEN q ELSE [q EXCEPT !.items = Append(@, ev)]

\* mutant: a topic without subscribers falls back to the longest registration
SnapshotOrAny(t2q, topic) ==
  IF topic \in DOMAIN t2q /\ t2q[topic] # <<>> THEN t2q[topic]
  ELSE IF DOMAIN t2q = {} THEN <<>>
  ELSE t2q[CHOOSE t \in DOMAIN t2q : \A u \in DOMAIN t2q : Len(t2q[u]) <= Len(t2q[t])]

\* list(self._topic_to_queues.get(topic, [])): no key is created by a read
Snapshot(t2q, topic) == IF topic \in DOMAIN t2q THEN t2q[topic] ELSE <<>>

\* mutant: only the first registered queue receives the event
DeliverToFirst(qs, targets, ev) ==
  IF targets = <<>> THEN qs
  ELSE [qs EXCEPT ![Head(targets)] = PutNowait(qs[Head(targets)], ev)]

RECURSIVE DeliverRaising(_, _, _)
\* mutant: QueueFull is not caught and ends the delivery loop
DeliverRaising(qs, targets, ev) ==
  IF targets = <<>> THEN qs
  ELSE LET q == Head(targets) IN
       IF Full(qs[q]) THEN qs
       ELSE DeliverRaising([qs EXCEPT ![q].items = Append(@, ev)], Tail(targets), ev)

RECURSIVE Deliver(_, _, _)
\* for queue in queues: try put_nowait; a full queue does not stop the loop
Deliver(qs, targets, ev) ==
  IF targets = <<>> THEN qs
  ELSE LET q == Head(targets) IN
       Deliver([qs EXCEPT ![q] = PutNowait(qs[q], ev)], Tail(targets), ev)

\* EventBus.publish: the queues after publishing ev on topic
publish(qs, t2q, topic, ev) == Deliver(qs, Snapshot(t2q, topic), ev)

\* the queues for which this publish hits QueueFull
Overflowed(qs, t2q, topic) ==
  {q \in Range(Snapshot(t2q, topic)) : Full(qs[q])}

\* self._topic_to_queues[topic].append(queue): the defaultdict creates the key
Register(t2q, topic, q) ==
  IF topic \in DOMAIN t2q THEN [t2q EXCEPT ![topic] = Append(@, q)]
  ELSE (topic :> <<q>>) @@ t2q

\* mutant: unsubscribing clears the topic's whole registration
UnregisterAll(t2q, topic, q) ==
  IF q \in Range(Snapshot(t2q, topic))
  THEN [t2q EXCEPT ![topic] = <<>>]
  ELSE t2q

\* finally: if queue in self._topic_to_queues.get(topic, []): remove(queue)
Unregister(t2q, topic, q) ==
  IF q \in Range(Snapshot(t2q, topic))
  THEN [t2q EXCEPT ![topic] = RemoveFirst(@, q)]
  ELSE t2q

\* asyncio.Queue(maxsize=max_queue_size)
NewQueue(topic, cap) == [items |-> <<>>, maxsize |-> cap, topic |-> topic]

\* the first step of the subscribe() generator: create and register the queue
subscribe_register(q, topic, cap) ==
  /\ q \notin DOMAIN queues
  /\ queues' = (q :> NewQueue(topic, cap)) @@ queues
  /\ topic_to_queues' = Register(topic_to_queues, topic, q)

\* the generator's finally block; the queue object dies with the generator
subscribe_finally(q) ==
  /\ topic_to_queues' = Unregister(topic_to_queues, queues[q].topic, q)
  /\ queues' = [p \in DOMAIN queues \ {q} |-> queues[p]]

\* ------------------------------------------------------------ Database
Addresses == {"AA", "BB"}

\* mutant: the flag is read negated
is_bt_trusted_negated(db, address) == address \in DOMAIN db /\ ~db[address]

\* is_bt_trusted: SELECT trusted ... ; bool(row[0]) if row else False
is_bt_trusted(db, address) == address \in DOMAIN db /\ db[address]

\* set_bt_trusted: UPDATE bt_devices SET trusted=? WHERE address=?
set_bt_trusted(db, address, trusted) ==
  IF address \in DOMAIN db THEN [db EXCEPT ![address] = trusted] ELSE db

\* UNIQUE(device_address, name, number) among the rows of one device: a new
\* row conflicts with a stored row of the same name and number, where a NULL
\* ("absent") is distinct from every value, another NULL included
Conflicts(rows, rec) ==
  \E i \in 1..Len(rows) :
    /\ rec.name # "absent" /\ rows[i].name = rec.name
    /\ rec.number # "absent" /\ rows[i].number = rec.number

\* executemany(INSERT OR IGNORE ...): the records are inserted in order, a
\* record that conflicts with a stored row is skipped
RECURSIVE InsertOrIgnore(_, _)
InsertOrIgnore(rows, recs) ==
  IF recs = <<>> THEN rows
  ELSE InsertOrIgnore(IF Conflicts(rows, Head(recs)) THEN rows
                      ELSE Append(rows, Head(recs)),
                      Tail(recs))

\* mutant: the device's rows are not deleted first
replace_contacts_keeping(tbl, address, parsed) ==
  [tbl EXCEPT ![address] = InsertOrIgnore(tbl[address], parsed)]

\* replace_contacts: DELETE the device's rows, then INSERT OR IGNORE the parsed
\* records, committed together
replace_contacts(tbl, address, parsed) ==
  [tbl EXCEPT ![address] = InsertOrIgnore(<<>>, parsed)]

\* ------------------------------------------------------ BluetoothAgent
Callbacks == {"c1", "c2"}

\* replies to Properties.GetAll("org.bluez.Device1") on the device path
PropsReplies ==
  [error : {TRUE}, Address : {"absent"}, Name : {"absent"}] \cup
  [error : {FALSE}, Address : Addresses \cup {"absent", "nonstr"},
   Name : {"Phone", "absent"}]

\* _get_device_props: {} on an error reply, else the reply's properties
get_device_props(reply) ==
  IF reply.error THEN [Address |-> "absent", Name |-> "absent"]
  ELSE [Address |-> reply.Address, Name |-> reply.Name]

\* mutant: the type of the address is not tested
IsStrAny(x) == TRUE

\* isinstance(x, str), for the values a property can take here
IsStr(x) == x \notin {"absent", "nonstr"}

\* payloads published on bt.pair_response by the approval consumer: for either
\* address with each approved value, and one without an address
Responses ==
  [address : Addresses, approved : {"true", "false", "absent"}] \cup
  {[address |-> "absent", approved |-> "true"]}

\* mutant: any matching response approves
ApprovedAlways(ev) == TRUE

\* mutant: a missing approved field counts as approval
ApprovedByDefault(ev) == ev.approved # "false"

\* bool(ev.get("approved", False))
Approved(ev) == ev.approved = "true"

\* mutant: the response's address is not compared
MatchesAny(ev, address) == TRUE

\* mutant: any response that has an address matches
MatchesAddressed(ev, address) == ev.address # "absent"

\* ev.get("address") == address
Matches(ev, address) == ev.address = address

\* the event _await_approval publishes on bt.pair_request
PairRequest(address, name) ==
  [address |-> address, name |-> IF IsStr(name) THEN name ELSE "None"]

\* the methods of org.bluez.Agent1 the agent implements
AgentMethods ==
  {"Release", "RequestConfirmation", "RequestAuthorization", "AuthorizeService",
   "RequestPinCode", "RequestPasskey", "DisplayPinCode", "DisplayPasskey", "Cancel"}

\* mutant: RequestPasskey answers without running the decision
GatesExceptPasskey(m) ==
  m \in {"RequestConfirmation", "RequestAuthorization", "AuthorizeService",
         "RequestPinCode"}

\* the methods whose body awaits _approve_or_reject(device)
Gates(m) ==
  m \in {"RequestConfirmation", "RequestAuthorization", "AuthorizeService",
         "RequestPinCode", "RequestPasskey"}

\* what a method returns when its body runs to the end
Return(m) ==
  CASE m = "RequestPinCode" -> "0000"
    [] m = "RequestPasskey" -> "0"
    [] OTHER -> "None"

\* the daemon invokes method m: a gating method enters _approve_or_reject, which
\* sends GetAll and waits for the reply; any other method returns None at once
AgentInvokeMethod(c, m) ==
  /\ cb[c].pc = "idle"
  /\ mgr.exported
  /\ cb' = IF Gates(m)
           THEN [cb EXCEPT ![c].pc = "get_props", ![c].method = m]
           ELSE [cb EXCEPT ![c].pc = "done", ![c].method = m,
                           ![c].result = "ok", ![c].ret = Return(m)]
  /\ UNCHANGED <<busvars, obsvars, bt_devices, contacts, mgr, cmdloop, callloop,
                 statusloop, env_n>>

\* a gating callback invoked through RequestConfirmation
AgentInvoke(c) == AgentInvokeMethod(c, "RequestConfirmation")

\* the GetAll reply arrives: no string address raises org.bluez.Error.Rejected,
\* otherwise is_bt_trusted is awaited
AgentPropsReply(c, reply) ==
  /\ cb[c].pc = "get_props"
  /\ LET props == get_device_props(reply) IN
     cb' = IF IsStr(props.Address)
           THEN [cb EXCEPT ![c].pc = "is_trusted",
                           ![c].address = props.Address,
                           ![c].name = props.Name]
           ELSE [cb EXCEPT ![c].pc = "done", ![c].result = "Rejected"]
  /\ UNCHANGED <<busvars, obsvars, bt_devices, contacts, mgr, cmdloop, callloop,
                 statusloop, env_n>>

\* mutant: the request is published but the queue is not yet registered when
\* the callback suspends
AgentTrustLookupUnregistered(c) ==
  /\ cb[c].pc = "is_trusted"
  /\ IF is_bt_trusted(bt_devices, cb[c].address)
     THEN /\ cb' = [cb EXCEPT ![c].pc = "done", ![c].result = "ok",
                              ![c].ret = Return(cb[c].method)]
          /\ UNCHANGED busvars
     ELSE LET ev == PairRequest(cb[c].address, cb[c].name) IN
          /\ c \notin DOMAIN queues
          /\ queues' = (c :> NewQueue("bt.pair_response", DefaultMaxQueueSize))
                          @@ publish(queues, topic_to_queues, "bt.pair_request", ev)
          /\ cb' = [cb EXCEPT ![c].pc = "waiting",
                              ![c].requested = Append(@, ev)]
          /\ UNCHANGED <<topic_to_queues, closing>>
  /\ UNCHANGED <<obsvars, bt_devices, contacts, mgr, cmdloop, callloop,
                 statusloop, env_n>>

\* is_bt_trusted returns: a trusted device returns at once; for an untrusted one
\* _await_approval publishes bt.pair_request and the subscribe() generator
\* registers its queue and waits, all without suspending in between
AgentTrustLookup(c) ==
  /\ cb[c].pc = "is_trusted"
  /\ IF is_bt_trusted(bt_devices, cb[c].address)
     THEN /\ cb' = [cb EXCEPT ![c].pc = "done", ![c].result = "ok",
                              ![c].ret = Return(cb[c].method)]
          /\ UNCHANGED busvars
     ELSE LET ev == PairRequest(cb[c].address, cb[c].name) IN
          /\ c \notin DOMAIN queues
          /\ queues' = (c :> NewQueue("bt.pair_response", DefaultMaxQueueSize))
                          @@ publish(queues, topic_to_queues, "bt.pair_request", ev)
          /\ topic_to_queues' = Register(topic_to_queues, "bt.pair_response", c)
          /\ cb' = [cb EXCEPT ![c].pc = "waiting",
                              ![c].requested = Append(@, ev)]
          /\ UNCHANGED closing
  /\ UNCHANGED <<obsvars, bt_devices, contacts, mgr, cmdloop, callloop,
                 statusloop, env_n>>

\* mutant: the wait gives up after the 30 s its comment mentions
AgentNextOrTimeout(c) ==
  /\ cb[c].pc = "waiting"
  /\ IF queues[c].items = <<>>
     THEN /\ subscribe_finally(c)
          /\ cb' = [cb EXCEPT ![c].pc = "done", ![c].result = "Rejected"]
          /\ UNCHANGED closing
     ELSE LET ev == Head(queues[c].items) IN
          /\ queues' = [queues EXCEPT ![c].items = Tail(@)]
          /\ UNCHANGED topic_to_queues
          /\ IF Matches(ev, cb[c].address)
             THEN /\ closing' = closing \cup {c}
                  /\ cb' = IF Approved(ev)
                            THEN [cb EXCEPT ![c].pc = "set_trusted",
                                            ![c].resolver = <<ev>>]
                            ELSE [cb EXCEPT ![c].pc = "done",
                                            ![c].result = "Rejected",
                                            ![c].resolver = <<ev>>]
             ELSE /\ cb' = [cb EXCEPT ![c].skipped = TRUE]
                  /\ UNCHANGED closing
  /\ UNCHANGED <<obsvars, bt_devices, contacts, mgr, cmdloop, callloop,
                 statusloop, env_n>>

\* mutant: the request is published again for every response that is skipped
AgentNextRepublish(c) ==
  /\ cb[c].pc = "waiting"
  /\ queues[c].items # <<>>
  /\ LET ev == Head(queues[c].items)
         req == [address |-> cb[c].address, name |-> cb[c].name] IN
     IF ev.address = cb[c].address
     THEN /\ queues' = [queues EXCEPT ![c].items = Tail(@)]
          /\ closing' = closing \cup {c}
          /\ cb' = IF ev.approved = "true"
                    THEN [cb EXCEPT ![c].pc = "set_trusted", ![c].resolver = <<ev>>]
                    ELSE [cb EXCEPT ![c].pc = "done", ![c].result = "Rejected",
                                    ![c].resolver = <<ev>>]
     ELSE /\ queues' = [q \in DOMAIN queues |->
                         IF q = c THEN [queues[c] EXCEPT !.items = Tail(@)]
                         ELSE IF queues[q].topic = "bt.pair_request"
                              THEN [queues[q] EXCEPT !.items = Append(@, req)]
                              ELSE queues[q]]
          /\ cb' = [cb EXCEPT ![c].skipped = TRUE,
                              ![c].requested = Append(@, req)]
          /\ UNCHANGED closing
  /\ UNCHANGED <<topic_to_queues, obsvars, bt_devices, contacts, mgr, cmdloop,
                 callloop, statusloop, env_n>>

\* the generator yields the next bt.pair_response: a non-matching one is skipped;
\* a matching one ends _await_approval (the generator is dropped, its aclose()
\* left to the event loop) and either set_bt_trusted is awaited or
\* org.bluez.Error.Rejected is raised
AgentNext(c) ==
  /\ cb[c].pc = "waiting"
  /\ queues[c].items # <<>>
  /\ LET ev == Head(queues[c].items) IN
     /\ queues' = [queues EXCEPT ![c].items = Tail(@)]
     /\ IF Matches(ev, cb[c].address)
        THEN /\ closing' = closing \cup {c}
             /\ cb' = IF Approved(ev)
                       THEN [cb EXCEPT ![c].pc = "set_trusted",
                                       ![c].resolver = <<ev>>]
                       ELSE [cb EXCEPT ![c].pc = "done",
                                       ![c].result = "Rejected",
                                       ![c].resolver = <<ev>>]
        ELSE /\ cb' = [cb EXCEPT ![c].skipped = TRUE]
             /\ UNCHANGED closing
  /\ UNCHANGED <<topic_to_queues, obsvars, bt_devices, contacts, mgr, cmdloop,
                 callloop, statusloop, env_n>>

\* set_bt_trusted(address, True) completes and the method returns its value
AgentSetTrusted(c) ==
  /\ cb[c].pc = "set_trusted"
  /\ bt_devices' = set_bt_trusted(bt_devices, cb[c].address, TRUE)
  /\ cb' = [cb EXCEPT ![c].pc = "done", ![c].result = "ok",
                      ![c].ret = Return(cb[c].method)]
  /\ UNCHANGED <<busvars, obsvars, contacts, mgr, cmdloop, callloop,
                 statusloop, env_n>>

\* mutant: the cancelled wait leaves its queue registered
AgentCancelLeaving(c) ==
  /\ cb[c].pc = "waiting"
  /\ cb' = [cb EXCEPT ![c].pc = "done", ![c].result = "Rejected",
                      ![c].cancelled = TRUE]
  /\ UNCHANGED <<busvars, obsvars, bt_devices, contacts, mgr, cmdloop, callloop,
                 statusloop, env_n>>

\* the callback's task is cancelled while the generator waits in queue.get():
\* the generator's finally block runs, _await_approval catches CancelledError
\* and returns False, and org.bluez.Error.Rejected is raised
AgentCancel(c) ==
  /\ cb[c].pc = "waiting"
  /\ subscribe_finally(c)
  /\ cb' = [cb EXCEPT ![c].pc = "done", ![c].result = "Rejected",
                      ![c].cancelled = TRUE]
  /\ UNCHANGED <<closing, obsvars, bt_devices, contacts, mgr, cmdloop, callloop,
                 statusloop, env_n>>

\* the event loop runs the aclose() of the generator a resolved decision dropped
AgentAclose(c) ==
  /\ c \in closing
  /\ subscribe_finally(c)
  /\ closing' = closing \ {c}
  /\ UNCHANGED <<obsvars, btvars>>

\* the approval consumer publishes a bt.pair_response
PublishResponse(ev) ==
  /\ env_n' = env_n + 1
  /\ queues' = publish(queues, topic_to_queues, "bt.pair_response", ev)
  /\ UNCHANGED <<topic_to_queues, closing, obsvars, bt_devices, contacts, cb, mgr,
                 cmdloop, callloop, statusloop>>

\* ---------------------------------------------------- BluetoothManager
\* ---- strings and values
\* the characters a modelled address consists of
Chars == {"A", "a", ":", "_"}

\* the longest address drawn
MaxText == 3

\* the non-empty strings over Chars, as character sequences
Texts == UNION {[1..n -> Chars] : n \in 1..MaxText}

\* the characters of the address a name of the model stands for; AA's are
\* an input of the run
AddressText(a) ==
  IF a = "AA" THEN probe.text ELSE <<"B", "B", ":", "0", "2">>

\* mutant: only the first occurrence is replaced
RECURSIVE ReplaceFirst(_, _, _)
ReplaceFirst(s, old, new) ==
  IF s = <<>> THEN <<>>
  ELSE IF Head(s) = old THEN new \o Tail(s)
       ELSE <<Head(s)>> \o ReplaceFirst(Tail(s), old, new)

\* str.replace(old, new) for a one-character old: every occurrence is replaced
RECURSIVE Replace(_, _, _)
Replace(s, old, new) ==
  IF s = <<>> THEN <<>>
  ELSE (IF Head(s) = old THEN new ELSE <<Head(s)>>) \o Replace(Tail(s), old, new)

\* _device_path_for
device_path_for(address) ==
  <<"/org/bluez/hci0", "/dev_">> \o Replace(address, ":", <<"_">>)

\* the transient file of _sync_contacts, named after the address without colons
tmp_file(address) ==
  <<"/tmp/carpi_contacts_">> \o Replace(address, ":", <<>>) \o <<".vcf">>

\* Python values: the type and the text str() gives
PyValues ==
  [type : {"bool"}, repr : {"True", "False"}] \cup
  [type : {"int"}, repr : {"0", "7"}] \cup
  [type : {"str"}, repr : {"Car", "7"}] \cup
  [type : {"float"}, repr : {"1.5"}] \cup
  [type : {"NoneType"}, repr : {"None"}]

True == [type |-> "bool", repr |-> "True"]

\* isinstance(value, t): bool is a subclass of int
IsInstance(value, t) ==
  value.type = t \/ (t = "int" /\ value.type = "bool")

\* str(value)
Str(value) == [type |-> "str", repr |-> value.repr]

\* mutant: the int test comes first
VariantIntFirst(value) ==
  IF IsInstance(value, "int") THEN <<"u", value.type, value.repr>>
  ELSE IF IsInstance(value, "bool") THEN <<"b", value.type, value.repr>>
  ELSE <<"s", Str(value).type, Str(value).repr>>

\* the Variant _set_adapter_property builds: signature, then the value
Variant(value) ==
  IF IsInstance(value, "bool") THEN <<"b", value.type, value.repr>>
  ELSE IF IsInstance(value, "int") THEN <<"u", value.type, value.repr>>
  ELSE <<"s", Str(value).type, Str(value).repr>>

\* ---- protocol calls
\* no call pending
NoRequest == [member |-> "none", path |-> <<>>, body |-> <<>>]

\* _set_adapter_property: Properties.Set on the adapter
set_adapter_property(prop, value) ==
  [member |-> "Set", path |-> <<"/org/bluez/hci0">>,
   body |-> <<"org.bluez.Adapter1", prop>> \o Variant(value)]

\* _connect_device and _disconnect_device
device_call(member, address) ==
  [member |-> member, path |-> device_path_for(address), body |-> <<>>]

\* the two calls of _register_agent
RegisterAgent ==
  [member |-> "RegisterAgent", path |-> <<"/org/bluez">>,
   body |-> <<"/carpi/agent", "DisplayYesNo">>]

RequestDefaultAgent ==
  [member |-> "RequestDefaultAgent", path |-> <<"/org/bluez">>,
   body |-> <<"/carpi/agent">>]

\* the calls of _sync_contacts
CreateSession(address) ==
  [member |-> "CreateSession", path |-> <<"/org/bluez/obex">>,
   body |-> address \o <<"PBAP">>]

PullAll(address) ==
  [member |-> "PullAll", path |-> <<"session">>,
   body |-> tmp_file(address) \o <<"vcard30">>]

GetStatus ==
  [member |-> "Get", path |-> <<"transfer">>,
   body |-> <<"org.bluez.obex.Transfer1", "Status">>]

RemoveSession ==
  [member |-> "RemoveSession", path |-> <<"/org/bluez/obex">>,
   body |-> <<"session">>]

\* ---- _run up to gather()
\* the adapter properties _run sets, in order, for the constructor's defaults
\* (an alias given, make_pairable and make_discoverable true)
ConfigProps == <<"Powered", "Alias", "Pairable", "DiscoverableTimeout", "Discoverable">>

\* the value _run writes to each
ConfigValue(prop) ==
  CASE prop = "Alias" -> [type |-> "str", repr |-> "Car"]
    [] prop = "DiscoverableTimeout" -> [type |-> "int", repr |-> "0"]
    [] OTHER -> True

\* the i-th adapter property write of _run
ConfigWrite(i) == set_adapter_property(ConfigProps[i], ConfigValue(ConfigProps[i]))

mgrvars == <<bt_devices, contacts, cb, cmdloop, callloop, statusloop, env_n>>

\* start(): the task is created and _run runs up to the system bus connect
MgrStart ==
  /\ mgr.pc = "init"
  /\ mgr' = [mgr EXCEPT !.pc = "connect_system"]
  /\ UNCHANGED <<busvars, obsvars, mgrvars>>

\* mutant: a failed system bus connect is passed over
MgrSystemConnectedAnyway(ok) ==
  /\ mgr.pc = "connect_system"
  /\ mgr' = [mgr EXCEPT !.pc = "connect_session", !.sysbus = ok]
  /\ UNCHANGED <<busvars, obsvars, mgrvars>>

\* the system bus connect returns or raises; on failure _run sleeps forever
MgrSystemConnected(ok) ==
  /\ mgr.pc = "connect_system"
  /\ mgr' = IF ok THEN [mgr EXCEPT !.pc = "connect_session", !.sysbus = TRUE]
            ELSE [mgr EXCEPT !.pc = "idle"]
  /\ UNCHANGED <<busvars, obsvars, mgrvars>>

\* the session bus connect returns or raises; then _register_agent exports the
\* agent and sends RegisterAgent
MgrSessionConnected(ok) ==
  /\ mgr.pc = "connect_session"
  /\ mgr' = [mgr EXCEPT !.pc = "register_agent", !.session_bus = ok,
                        !.exported = TRUE, !.call = RegisterAgent]
  /\ UNCHANGED <<busvars, obsvars, mgrvars>>

\* mutant: a failed agent registration ends the startup
MgrAgentRegisteredOrStop(ok) ==
  /\ mgr.pc = "register_agent"
  /\ mgr' = IF ok THEN [mgr EXCEPT !.pc = "default_agent", !.agent = "registered",
                                   !.call = RequestDefaultAgent]
            ELSE [mgr EXCEPT !.pc = "idle", !.agent = "failed", !.call = NoRequest]
  /\ UNCHANGED <<busvars, obsvars, mgrvars>>

\* the RegisterAgent reply: an error raises (caught in _run, configuration
\* starts), otherwise RequestDefaultAgent is sent
MgrAgentRegistered(ok) ==
  /\ mgr.pc = "register_agent"
  /\ mgr' = IF ok THEN [mgr EXCEPT !.pc = "default_agent", !.agent = "registered",
                                   !.call = RequestDefaultAgent]
            ELSE [mgr EXCEPT !.pc = "configure", !.cfg = 1, !.agent = "failed",
                             !.call = ConfigWrite(1)]
  /\ UNCHANGED <<busvars, obsvars, mgrvars>>

\* the RequestDefaultAgent reply (an error is only logged); Powered is sent
MgrDefaultAgentReply(ok) ==
  /\ mgr.pc = "default_agent"
  /\ mgr' = [mgr EXCEPT !.pc = "configure", !.cfg = 1, !.call = ConfigWrite(1)]
  /\ UNCHANGED <<busvars, obsvars, mgrvars>>

\* the reply to one adapter property write: an error raises and ends the
\* configuration; after the last write, or the error, gather() starts the loops
MgrConfigured(ok) ==
  /\ mgr.pc = "configure"
  /\ IF ok /\ mgr.cfg < Len(ConfigProps)
     THEN /\ mgr' = [mgr EXCEPT !.cfg = @ + 1, !.call = ConfigWrite(mgr.cfg + 1)]
          /\ UNCHANGED <<cmdloop, callloop, statusloop>>
     ELSE /\ mgr' = [mgr EXCEPT !.pc = "running", !.cfg = 0, !.call = NoRequest,
                                !.config = IF ok THEN "done" ELSE "failed"]
          /\ cmdloop' = [cmdloop EXCEPT !.pc = "start"]
          /\ callloop' = [callloop EXCEPT !.pc = "start"]
          /\ statusloop' = [statusloop EXCEPT !.pc = "start"]
  /\ UNCHANGED <<busvars, obsvars, bt_devices, contacts, cb, env_n>>

\* ---- handle_bt_commands
NoCommand == [action |-> "absent", address |-> "absent", trusted |-> "absent",
              alias |-> "absent"]

\* payloads published on bt.command; "nonstr" stands for a value that is not a
\* string and not falsy, "absent" for a missing or falsy one
Commands ==
  [action : {"trust"}, address : Addresses \cup {"absent"},
   trusted : {"true", "false", "absent"}, alias : {"absent"}] \cup
  [action : {"TRUST"}, address : {"AA"}, trusted : {"true"}, alias : {"absent"}] \cup
  [action : {"connect", "disconnect", "sync_contacts"},
   address : Addresses \cup {"absent"}, trusted : {"absent"}, alias : {"absent"}] \cup
  [action : {"connect"}, address : {"nonstr"}, trusted : {"absent"},
   alias : {"absent"}] \cup
  [action : {"discoverable", "pairable", "bogus", "absent", "nonstr"},
   address : {"absent"}, trusted : {"absent"}, alias : {"absent"}] \cup
  [action : {"alias"}, address : {"absent"}, trusted : {"absent"},
   alias : {"Car", "absent"}]

\* str.lower(), for the action names that occur here
Lower(a) ==
  CASE a = "TRUST" -> "trust"
    [] a = "ANSWER" -> "answer"
    [] OTHER -> a

\* (cmd.get("action") or "").lower() raises AttributeError when the action is
\* neither falsy nor a string; the statement is outside the loop's try
ActionRaises(cmd) == cmd.action = "nonstr"

\* (cmd.get("action") or "").lower() when it does not raise
ActionOf(cmd) == IF cmd.action = "absent" THEN "" ELSE Lower(cmd.action)

\* bool(cmd.get("trusted", True))
TrustedArg(cmd) == cmd.trusted # "false"

\* `if addr:` and `isinstance(alias, str) and alias`
Given(x) == x # "absent"

\* mutant: _sync_contacts does not look at the session connection
CommandDispatchUnchecked(action, cmd, session_bus) ==
  CASE action \in {"discoverable", "pairable"} -> "call"
    [] action = "alias" -> IF Given(cmd.alias) THEN "call" ELSE "waiting"
    [] action \in {"connect", "disconnect"} ->
         IF ~Given(cmd.address) THEN "waiting"
         ELSE IF cmd.address = "nonstr" THEN "raised" ELSE "call"
    [] action = "trust" ->
         IF Given(cmd.address) THEN "set_trusted" ELSE "waiting"
    [] action = "sync_contacts" ->
         IF ~Given(cmd.address) THEN "waiting"
         ELSE IF cmd.address = "nonstr" THEN "raised" ELSE "sync_create"
    [] OTHER -> "waiting"

\* mutant: an action the chain does not know is handled as a property write
CommandDispatchDefault(action, cmd, session_bus) ==
  CASE action \in {"discoverable", "pairable"} -> "call"
    [] action = "alias" -> IF Given(cmd.alias) THEN "call" ELSE "waiting"
    [] action \in {"connect", "disconnect"} ->
         IF ~Given(cmd.address) THEN "waiting"
         ELSE IF cmd.address = "nonstr" THEN "raised" ELSE "call"
    [] action = "trust" ->
         IF Given(cmd.address) THEN "set_trusted" ELSE "waiting"
    [] action = "sync_contacts" ->
         IF ~Given(cmd.address) THEN "waiting"
         ELSE IF ~session_bus THEN "unavailable"
         ELSE IF cmd.address = "nonstr" THEN "raised" ELSE "sync_create"
    [] OTHER -> "call"

\* where handle_bt_commands suspends after taking cmd with this action, or
\* "raised" when the branch raises before its first await (address.replace on
\* an address that is not a string), which the loop's except logs, or
\* "unavailable" when _sync_contacts returns at once for want of a session bus
CommandDispatch(action, cmd, session_bus) ==
  CASE action \in {"discoverable", "pairable"} -> "call"
    [] action = "alias" -> IF Given(cmd.alias) THEN "call" ELSE "waiting"
    [] action \in {"connect", "disconnect"} ->
         IF ~Given(cmd.address) THEN "waiting"
         ELSE IF cmd.address = "nonstr" THEN "raised" ELSE "call"
    [] action = "trust" ->
         IF Given(cmd.address) THEN "set_trusted" ELSE "waiting"
    [] action = "sync_contacts" ->
         IF ~Given(cmd.address) THEN "waiting"
         ELSE IF ~session_bus THEN "unavailable"
         ELSE IF cmd.address = "nonstr" THEN "raised" ELSE "sync_create"
    [] OTHER -> "waiting"

\* the names the if/elif chain of handle_bt_commands compares the action with
Recognized(action) ==
  action \in {"discoverable", "pairable", "alias", "connect", "disconnect",
              "trust", "sync_contacts"}

\* the protocol call handle_bt_commands sends first for a command it
\* dispatches to a call
CommandRequest(action, cmd) ==
  CASE action = "discoverable" -> set_adapter_property("Discoverable", True)
    [] action = "pairable" -> set_adapter_property("Pairable", True)
    [] action = "alias" ->
         set_adapter_property("Alias", [type |-> "str", repr |-> cmd.alias])
    [] action = "connect" -> device_call("Connect", AddressText(cmd.address))
    [] action = "disconnect" -> device_call("Disconnect", AddressText(cmd.address))
    [] action = "sync_contacts" -> CreateSession(AddressText(cmd.address))
    [] OTHER -> NoRequest

\* the loop is back at its queue.get(); outcome says how the command it has
\* just finished went: "ignored" (no branch of the chain entered), "done" (a
\* branch ran to its end), "failed" (the loop's except logged an exception),
\* or what _sync_contacts logged: "unavailable", "create_failed",
\* "pull_failed", "sync_failed" (its own except) or "synced"
CmdDone(outcome) ==
  [pc |-> "waiting", cmd |-> NoCommand, outcome |-> outcome, call |-> NoRequest,
   transfer |-> "none", parsed |-> <<>>, reads |-> 0]

\* the command loop's task starts: subscribe("bt.command") registers its queue
CmdSubscribe ==
  /\ cmdloop.pc = "start"
  /\ subscribe_register("cmd", "bt.command", DefaultMaxQueueSize)
  /\ cmdloop' = CmdDone("none")
  /\ UNCHANGED <<closing, obsvars, bt_devices, contacts, cb, mgr, callloop,
                 statusloop, env_n>>

\* the next command is taken.  If reading its action raises, the exception
\* leaves handle_bt_commands: the loop's task ends, its generator is dropped
\* (aclose() left to the event loop) and gather() hands the exception to _run,
\* whose task ends with it; the other loops run on.  Otherwise the command is
\* dispatched on its action, up to the first protocol call or Trust Store call
\* it awaits.
CmdTake ==
  /\ cmdloop.pc = "waiting"
  /\ queues["cmd"].items # <<>>
  /\ queues' = [queues EXCEPT !["cmd"].items = Tail(@)]
  /\ LET cmd == Head(queues["cmd"].items) IN
     IF ActionRaises(cmd)
     THEN /\ cmdloop' = [CmdDone("none") EXCEPT !.pc = "dead"]
          /\ closing' = closing \cup {"cmd"}
          /\ mgr' = [mgr EXCEPT !.pc = "failed"]
     ELSE /\ LET pc == CommandDispatch(ActionOf(cmd), cmd, mgr.session_bus) IN
             cmdloop' =
               IF pc = "raised" THEN CmdDone("failed")
               ELSE IF pc = "unavailable" THEN CmdDone("unavailable")
               ELSE IF pc = "waiting"
                    THEN CmdDone(IF Recognized(ActionOf(cmd)) THEN "done" ELSE "ignored")
                    ELSE [CmdDone("none") EXCEPT
                            !.pc = pc, !.cmd = cmd,
                            !.call = IF pc = "set_trusted" THEN NoRequest
                                     ELSE CommandRequest(ActionOf(cmd), cmd)]
          /\ UNCHANGED <<closing, mgr>>
  /\ UNCHANGED <<topic_to_queues, obsvars, bt_devices, contacts, cb,
                 callloop, statusloop, env_n>>

\* the event loop runs the aclose() of the generator the dead command loop dropped
CmdAclose ==
  /\ "cmd" \in closing
  /\ subscribe_finally("cmd")
  /\ closing' = closing \ {"cmd"}
  /\ UNCHANGED <<obsvars, btvars>>

\* the reply to an adapter property write, Connect or Disconnect: an error
\* raises RuntimeError, which the loop logs
CmdCallReply(ok) ==
  /\ cmdloop.pc = "call"
  /\ cmdloop' = CmdDone(IF ok THEN "done" ELSE "failed")
  /\ UNCHANGED <<busvars, obsvars, bt_devices, contacts, cb, mgr, callloop,
                 statusloop, env_n>>

\* action trust: set_bt_trusted(addr, trusted) completes, or the database
\* raises, which the loop logs
CmdSetTrusted(ok) ==
  /\ cmdloop.pc = "set_trusted"
  /\ bt_devices' = IF ok THEN set_bt_trusted(bt_devices, cmdloop.cmd.address,
                                              TrustedArg(cmdloop.cmd))
                   ELSE bt_devices
  /\ cmdloop' = CmdDone(IF ok THEN "done" ELSE "failed")
  /\ UNCHANGED <<busvars, obsvars, contacts, cb, mgr, callloop, statusloop, env_n>>

\* ---- _sync_contacts
\* the program counters of the command loop inside _sync_contacts
SyncPcs ==
  {"sync_create", "sync_pull", "sync_remove", "sync_wait", "sync_sleep", "sync_store"}

\* how a call of _sync_contacts can come back: a reply, an error reply, or an
\* exception out of MessageBus.call
Replies == {"ok", "error", "raise"}

\* a reply or an error reply
PlainReplies == {"ok", "error"}

\* the transfer status at which _wait_transfer_complete returns, "exhausted"
\* after 200 reads without one, "raise" when a read raises
TransferEnds == {"complete", "error", "cancelled", "exhausted", "raise"}

\* ---- _parse_vcf_file
\* the lines a transient file is made of here, each cut into the pieces the
\* parser tells apart: a begin marker, an end marker, a formatted name, a
\* telephone number with and without a parameter, and some other property
VcfLines ==
  {<<"BEGIN", ":", "VCARD">>, <<"END", ":", "VCARD">>, <<"FN", ":", "Ann">>,
   <<"TEL", ":", "1">>, <<"TEL", ";TYPE=CELL", ":", "2">>, <<"NOTE", ":", "x">>}

\* the longest file parsed
MaxLines == 5

\* the files: any lines in any order
VcfFiles == UNION {[1..n -> VcfLines] : n \in 0..MaxLines}

\* no file handed to the parser
NoVcf == [file |-> <<>>, called |-> FALSE, result |-> <<>>]

\* the line matches (?im)^END:VCARD\s*$
IsEndLine(line) == line = <<"END", ":", "VCARD">>

\* "BEGIN:VCARD" in card, for one line of the card
HasBegin(line) == Len(line) >= 3 /\ SubSeq(line, 1, 3) = <<"BEGIN", ":", "VCARD">>

RECURSIVE SplitCards(_, _)
\* re.split on the end lines: the texts between them, the text after the last
\* one included
SplitCards(lines, card) ==
  IF lines = <<>> THEN <<card>>
  ELSE IF IsEndLine(Head(lines)) THEN <<card>> \o SplitCards(Tail(lines), <<>>)
  ELSE SplitCards(Tail(lines), Append(card, Head(lines)))

\* line.upper().startswith("FN:")
StartsWithFN(line) == Len(line) >= 2 /\ line[1] = "FN" /\ line[2] = ":"

\* line[3:].strip()
FnValue(line) == IF Len(line) >= 3 THEN line[3] ELSE ""

\* line.upper().startswith("TEL")
StartsWithTEL(line) == Len(line) >= 1 /\ line[1] = "TEL"

\* line.split(":", 1): the text after the first colon, or no second part
TelParts(line) ==
  IF \E i \in 1..Len(line) : line[i] = ":"
  THEN LET i == CHOOSE k \in 1..Len(line) :
                  line[k] = ":" /\ \A j \in 1..(k - 1) : line[j] # ":"
       IN <<IF i < Len(line) THEN line[i + 1] ELSE "">>
  ELSE <<>>

RECURSIVE ScanCard(_, _, _)
\* for line in card.splitlines(): a formatted-name line sets the name, the
\* first telephone line with a colon sets the number and leaves the loop
ScanCard(lines, name, number) ==
  IF lines = <<>> THEN [name |-> name, number |-> number]
  ELSE LET line == Head(lines)
           n == IF StartsWithFN(line) THEN FnValue(line) ELSE name
       IN IF StartsWithTEL(line) /\ TelParts(line) # <<>>
          THEN [name |-> n, number |-> TelParts(line)[1]]
          ELSE ScanCard(Tail(lines), n, number)

RECURSIVE ParseCards(_)
\* for card in cards: a card without a begin marker is passed over; the others
\* give (name, number, card + end marker), "absent" standing for None
ParseCards(cards) ==
  IF cards = <<>> THEN <<>>
  ELSE LET card == Head(cards)
           scan == ScanCard(card, "absent", "absent")
       IN (IF \E i \in 1..Len(card) : HasBegin(card[i])
           THEN <<[name |-> scan.name, number |-> scan.number,
                   raw |-> Append(card, <<"END", ":", "VCARD">>)]>>
           ELSE <<>>) \o ParseCards(Tail(cards))

\* _parse_vcf_file on a file that can be read
parse_vcf_file(file) == ParseCards(SplitCards(file, <<>>))

\* a direct call of _parse_vcf_file on the file drawn
ParseVcfFile ==
  /\ ~probe.vcf.called
  /\ probe' = [probe EXCEPT !.vcf.called = TRUE,
                            !.vcf.result = parse_vcf_file(probe.vcf.file)]
  /\ UNCHANGED <<busvars, published, dropped, sub, obex, bt_devices, contacts, cb,
                 mgr, cmdloop, callloop, statusloop, env_n>>

\* the transient file of the sync in progress
SyncFile == tmp_file(AddressText(cmdloop.cmd.address))

\* mutant: the finally block leaves the file
remove_tmp_file_never(files, file) == files

\* the finally block of _sync_contacts: os.remove if os.path.exists
remove_tmp_file(files, file) == files \ {file}

\* the sync is over: its finally block has run; the loop is back at its
\* queue.get(), with the status the transfer was left at still on record
SyncEnd(outcome, sessions) ==
  /\ cmdloop' = [CmdDone(outcome) EXCEPT !.transfer = cmdloop.transfer]
  /\ obex' = [sessions |-> sessions, files |-> remove_tmp_file(obex.files, SyncFile)]

\* the CreateSession reply: an error reply or an exception ends the sync,
\* otherwise the daemon has opened a session and PullAll is sent on it
SyncCreateReply(r) ==
  /\ cmdloop.pc = "sync_create"
  /\ IF r = "ok"
     THEN /\ cmdloop' = [cmdloop EXCEPT !.pc = "sync_pull",
                                        !.call = PullAll(AddressText(cmdloop.cmd.address))]
          /\ obex' = [obex EXCEPT !.sessions = @ + 1]
     ELSE SyncEnd(IF r = "error" THEN "create_failed" ELSE "sync_failed",
                  obex.sessions)
  /\ UNCHANGED <<busvars, published, dropped, sub, probe, bt_devices, contacts, cb,
                 mgr, callloop, statusloop, env_n>>

\* mutant: an error reply to PullAll ends the sync at once
SyncPullReplyNoRemove(r, written) ==
  /\ cmdloop.pc = "sync_pull"
  /\ CASE r = "ok" ->
            /\ cmdloop' = [cmdloop EXCEPT !.pc = "sync_wait", !.call = GetStatus]
            /\ obex' = [obex EXCEPT !.files =
                          IF written THEN @ \cup {SyncFile} ELSE @]
       [] r = "error" -> SyncEnd("pull_failed", obex.sessions)
       [] OTHER -> SyncEnd("sync_failed", obex.sessions)
  /\ UNCHANGED <<busvars, published, dropped, sub, probe, bt_devices, contacts, cb,
                 mgr, callloop, statusloop, env_n>>

\* the PullAll reply: an error reply sends RemoveSession, an exception ends the
\* sync, otherwise the status poll starts; the daemon writes the target file,
\* or has not written any yet when the poll ends
SyncPullReply(r, written) ==
  /\ cmdloop.pc = "sync_pull"
  /\ CASE r = "ok" ->
            /\ cmdloop' = [cmdloop EXCEPT !.pc = "sync_wait", !.call = GetStatus]
            /\ obex' = [obex EXCEPT !.files =
                          IF written THEN @ \cup {SyncFile} ELSE @]
       [] r = "error" ->
            /\ cmdloop' = [cmdloop EXCEPT !.pc = "sync_remove", !.call = RemoveSession]
            /\ UNCHANGED obex
       [] OTHER -> SyncEnd("sync_failed", obex.sessions)
  /\ UNCHANGED <<busvars, published, dropped, sub, probe, bt_devices, contacts, cb,
                 mgr, callloop, statusloop, env_n>>

\* the RemoveSession call returns: its reply is not looked at, an exception is
\* logged by the sync's except; the daemon has removed the session if it
\* answered without an error
SyncRemoveReply(r) ==
  /\ cmdloop.pc = "sync_remove"
  /\ SyncEnd(IF r = "raise" THEN "sync_failed" ELSE "pull_failed",
             IF r = "ok" THEN obex.sessions - 1 ELSE obex.sessions)
  /\ UNCHANGED <<busvars, published, dropped, sub, probe, bt_devices, contacts, cb,
                 mgr, callloop, statusloop, env_n>>

\* a contact as parsed or stored: name and number, "absent" for None and NULL
Records == [name : {"Ann", "absent"}, number : {"1", "absent"}]

\* the longest list parsed
MaxRecords == 2

\* what _parse_vcf_file can return
ParsedLists == UNION {[1..n -> Records] : n \in 0..MaxRecords}

\* the lists of at most one full record
PlainParsed == {p \in ParsedLists : \A i \in 1..Len(p) : i = 1 /\ p[i].name # "absent"
                                                          /\ p[i].number # "absent"}

\* range(0, 200): the status reads of one poll
PollAttempts == 200

\* the values at which the poll returns
TerminalStatuses == {"complete", "error", "cancelled"}

\* the values the daemon reports for a transfer's Status property
TransferStatuses == {"queued", "active"} \cup TerminalStatuses

\* what a status read can come back with: the property's value, an error
\* reply, or an exception of the connection
ReadReplies ==
  [kind : {"status"}, status : TransferStatuses] \cup
  {[kind |-> "error", status |-> "error_reply"],
   [kind |-> "raise", status |-> "none"]}

\* mutant: an error reply is retried without counting as an attempt
SyncStatusReadSkippingErrors(reply, parsed) ==
  /\ cmdloop.pc = "sync_wait"
  /\ cmdloop.reads < PollAttempts
  /\ SyncFile \notin obex.files => parsed = <<>>
  /\ CASE reply.kind = "raise" ->
            /\ parsed = <<>>
            /\ SyncEnd("sync_failed", obex.sessions)
       [] reply.kind = "status" /\ reply.status \in TerminalStatuses ->
            /\ cmdloop' = [cmdloop EXCEPT
                             !.pc = "sync_store", !.call = NoRequest,
                             !.transfer = reply.status, !.parsed = parsed,
                             !.reads = @ + 1]
            /\ UNCHANGED obex
       [] OTHER ->
            /\ parsed = <<>>
            /\ cmdloop' = [cmdloop EXCEPT
                             !.pc = "sync_sleep", !.call = NoRequest,
                             !.transfer = reply.status,
                             !.reads = IF reply.kind = "error" THEN @ ELSE @ + 1]
            /\ UNCHANGED obex
  /\ UNCHANGED <<busvars, published, dropped, sub, probe, bt_devices, contacts, cb,
                 mgr, callloop, statusloop, env_n>>

\* one status read of _wait_transfer_complete returns.  A reply that is not an
\* error and carries complete, error or cancelled ends the poll: the file is
\* parsed (to nothing if it cannot be opened) and replace_contacts is awaited.
\* Any other reply, an error reply included, is followed by the 0.1 s sleep.
\* An exception ends the sync.  cmdloop.reads counts the reads of this poll,
\* cmdloop.transfer keeps what the last one returned.
SyncStatusRead(reply, parsed) ==
  /\ cmdloop.pc = "sync_wait"
  /\ cmdloop.reads < PollAttempts
  /\ SyncFile \notin obex.files => parsed = <<>>
  /\ CASE reply.kind = "raise" ->
            /\ parsed = <<>>
            /\ SyncEnd("sync_failed", obex.sessions)
       [] reply.kind = "status" /\ reply.status \in TerminalStatuses ->
            /\ cmdloop' = [cmdloop EXCEPT
                             !.pc = "sync_store", !.call = NoRequest,
                             !.transfer = reply.status, !.parsed = parsed,
                             !.reads = @ + 1]
            /\ UNCHANGED obex
       [] OTHER ->
            /\ parsed = <<>>
            /\ cmdloop' = [cmdloop EXCEPT
                             !.pc = "sync_sleep", !.call = NoRequest,
                             !.transfer = reply.status, !.reads = @ + 1]
            /\ UNCHANGED obex
  /\ UNCHANGED <<busvars, published, dropped, sub, probe, bt_devices, contacts, cb,
                 mgr, callloop, statusloop, env_n>>

\* the sleep after a read ends: the next read is sent, or, after the last of
\* the 200, the for loop is over and _wait_transfer_complete returns: the file
\* is parsed and replace_contacts is awaited
SyncPollSleep(parsed) ==
  /\ cmdloop.pc = "sync_sleep"
  /\ SyncFile \notin obex.files => parsed = <<>>
  /\ IF cmdloop.reads < PollAttempts
     THEN /\ parsed = <<>>
          /\ cmdloop' = [cmdloop EXCEPT !.pc = "sync_wait", !.call = GetStatus]
     ELSE cmdloop' = [cmdloop EXCEPT !.pc = "sync_store", !.transfer = "exhausted",
                                     !.parsed = parsed]
  /\ UNCHANGED <<busvars, published, dropped, sub, probe, bt_devices, contacts, cb,
                 mgr, callloop, statusloop, env_n, obex>>

\* the poll as a whole, for the runs that do not look inside it:
\* _wait_transfer_complete returns (a terminal status, or the attempts used up),
\* the file is parsed (to nothing if it cannot be opened) and replace_contacts
\* is awaited; or a status read raises, which ends the sync
SyncWaitDone(status, parsed) ==
  /\ cmdloop.pc = "sync_wait"
  /\ SyncFile \notin obex.files => parsed = <<>>
  /\ IF status = "raise"
     THEN /\ parsed = <<>>
          /\ SyncEnd("sync_failed", obex.sessions)
     ELSE /\ cmdloop' = [cmdloop EXCEPT
                          !.pc = "sync_store", !.call = NoRequest,
                          !.transfer = status, !.parsed = parsed,
                          !.reads = IF status = "exhausted" THEN PollAttempts ELSE @]
          /\ UNCHANGED obex
  /\ UNCHANGED <<busvars, published, dropped, sub, probe, bt_devices, contacts, cb,
                 mgr, callloop, statusloop, env_n>>

\* replace_contacts completes with what the file parsed to, or raises
SyncStore(ok) ==
  /\ cmdloop.pc = "sync_store"
  /\ contacts' = IF ok THEN replace_contacts(contacts, cmdloop.cmd.address,
                                             cmdloop.parsed)
                 ELSE contacts
  /\ SyncEnd(IF ok THEN "synced" ELSE "sync_failed", obex.sessions)
  /\ UNCHANGED <<busvars, published, dropped, sub, probe, bt_devices, cb, mgr,
                 callloop, statusloop, env_n>>

\* ---- handle_call_commands
\* payloads published on bt.call
CallCommands ==
  [action : {"answer", "ANSWER", "hangup", "decline", "bogus", "absent", "nonstr"},
   number : {"absent"}] \cup
  [action : {"dial"}, number : {"absent", "555"}]

\* no call-manager call
NoCall == [member |-> "none", body |-> <<>>]

\* mutant: decline is not mapped to a call
OfonoCallWithoutDecline(action, cmd) ==
  CASE action = "answer" -> [member |-> "Answer", body |-> <<>>]
    [] action = "hangup" -> [member |-> "Hangup", body |-> <<>>]
    [] action = "dial" /\ Given(cmd.number) ->
         [member |-> "Dial", body |-> <<cmd.number, "default">>]
    [] OTHER -> NoCall

\* the org.ofono.VoiceCallManager call handle_call_commands sends for an
\* action, through _ofono_action or _ofono_dial
OfonoCall(action, cmd) ==
  CASE action = "answer" -> [member |-> "Answer", body |-> <<>>]
    [] action \in {"hangup", "decline"} -> [member |-> "Hangup", body |-> <<>>]
    [] action = "dial" /\ Given(cmd.number) ->
         [member |-> "Dial", body |-> <<cmd.number, "default">>]
    [] OTHER -> NoCall

\* the call-control loop's task starts: subscribe("bt.call") registers its queue
CallSubscribe ==
  /\ callloop.pc = "start"
  /\ subscribe_register("call", "bt.call", DefaultMaxQueueSize)
  /\ callloop' = [pc |-> "waiting", call |-> NoCall]
  /\ UNCHANGED <<closing, obsvars, bt_devices, contacts, cb, mgr, cmdloop,
                 statusloop, env_n>>

\* mutant: the loops run one after the other: a call command is taken only
\* while the command loop is idle
CallTakeAfterCommand ==
  /\ callloop.pc = "waiting"
  /\ cmdloop.pc = "waiting"
  /\ queues["call"].items # <<>>
  /\ queues' = [queues EXCEPT !["call"].items = Tail(@)]
  /\ LET cmd == Head(queues["call"].items) IN
     IF ActionRaises(cmd)
     THEN /\ callloop' = [pc |-> "dead", call |-> NoCall]
          /\ closing' = closing \cup {"call"}
          /\ mgr' = [mgr EXCEPT !.pc = "failed"]
     ELSE /\ LET call == OfonoCall(ActionOf(cmd), cmd) IN
             callloop' = [pc |-> IF call = NoCall THEN "waiting" ELSE "call",
                          call |-> call]
          /\ UNCHANGED <<closing, mgr>>
  /\ UNCHANGED <<topic_to_queues, obsvars, bt_devices, contacts, cb,
                 cmdloop, statusloop, env_n>>

\* the next call command is taken.  If reading its action raises, the loop's
\* task ends as the command loop's does; otherwise Answer, Hangup or Dial is
\* sent for it, or nothing
CallTake ==
  /\ callloop.pc = "waiting"
  /\ queues["call"].items # <<>>
  /\ queues' = [queues EXCEPT !["call"].items = Tail(@)]
  /\ LET cmd == Head(queues["call"].items) IN
     IF ActionRaises(cmd)
     THEN /\ callloop' = [pc |-> "dead", call |-> NoCall]
          /\ closing' = closing \cup {"call"}
          /\ mgr' = [mgr EXCEPT !.pc = "failed"]
     ELSE /\ LET call == OfonoCall(ActionOf(cmd), cmd) IN
             callloop' = [pc |-> IF call = NoCall THEN "waiting" ELSE "call",
                          call |-> call]
          /\ UNCHANGED <<closing, mgr>>
  /\ UNCHANGED <<topic_to_queues, obsvars, bt_devices, contacts, cb,
                 cmdloop, statusloop, env_n>>

\* the event loop runs the aclose() of the generator the dead call loop dropped
CallAclose ==
  /\ "call" \in closing
  /\ subscribe_finally("call")
  /\ closing' = closing \ {"call"}
  /\ UNCHANGED <<obsvars, btvars>>

\* the call manager's reply: an error raises RuntimeError, which the loop logs
CallReply(ok) ==
  /\ callloop.pc = "call"
  /\ callloop' = [pc |-> "waiting", call |-> NoCall]
  /\ UNCHANGED <<busvars, obsvars, bt_devices, contacts, cb, mgr, cmdloop,
                 statusloop, env_n>>

\* ---- handle_bt_status
\* the objects a GetManagedObjects reply can list, keyed by object path: the
\* adapter (no org.bluez.Device1 interface) and two devices with their
\* Connected property true, false or missing
ManagedObjects ==
  {[path |-> "hci0", device |-> FALSE, Connected |-> "absent", Address |-> "absent"]}
  \cup [path : {"dev_AA"}, device : {TRUE}, Connected : {"true", "false", "absent"},
        Address : {"AA"}]
  \cup [path : {"dev_BB"}, device : {TRUE}, Connected : {"true", "false", "absent"},
        Address : {"BB"}]

\* the bodies of a GetManagedObjects reply: a dict, so no path twice, in the
\* order the reply lists them
ManagedBodies ==
  UNION {{b \in [1..n -> ManagedObjects] :
            \A i, j \in 1..n : i # j => b[i].path # b[j].path} : n \in 0..MaxObjects}

\* what awaiting the GetManagedObjects call gives: the call raises, or an error
\* reply, or a reply with a body
StatusReplies ==
  {[kind |-> "raise", body |-> <<>>], [kind |-> "error", body |-> <<>>]}
  \cup [kind : {"reply"}, body : ManagedBodies]

\* the replies without objects
BareReplies == {r \in StatusReplies : r.body = <<>>}

\* props.get("Connected")
Truthy(x) == x = "true"

RECURSIVE ConnectedEntriesAll(_)
\* mutant: the Connected property is not tested
ConnectedEntriesAll(body) ==
  IF body = <<>> THEN <<>>
  ELSE (IF Head(body).device
        THEN <<[address |-> Head(body).Address]>> ELSE <<>>)
       \o ConnectedEntriesAll(Tail(body))

RECURSIVE ConnectedEntries(_)
\* the loop over managed.items(): one entry per object that has a Device1
\* interface whose Connected property is true, in the reply's order
ConnectedEntries(body) ==
  IF body = <<>> THEN <<>>
  ELSE (IF Head(body).device /\ Truthy(Head(body).Connected)
        THEN <<[address |-> Head(body).Address]>> ELSE <<>>)
       \o ConnectedEntries(Tail(body))

\* _get_bt_status: what it returns for a reply that did not raise
get_bt_status(reply) ==
  LET devices == IF reply.kind = "error" THEN <<>> ELSE ConnectedEntries(reply.body)
  IN [connected_devices |-> devices,
      current |-> IF devices # <<>> THEN devices[1] ELSE "None"]

\* the status loop before its first reply
NoReply == [kind |-> "none", body |-> <<>>]

\* the status loop sends GetManagedObjects (at its start and after each sleep)
StatusPoll ==
  /\ statusloop.pc \in {"start", "sleeping"}
  /\ statusloop' = [statusloop EXCEPT !.pc = "polling"]
  /\ UNCHANGED <<busvars, obsvars, bt_devices, contacts, cb, mgr, cmdloop,
                 callloop, env_n>>

\* mutant: an exception of the poll is not caught and ends the loop
StatusReplyUncaught(reply) ==
  /\ statusloop.pc = "polling"
  /\ IF reply.kind = "raise"
     THEN /\ statusloop' = [pc |-> "dead", reply |-> reply, sent |-> <<>>]
          /\ UNCHANGED queues
     ELSE LET status == get_bt_status(reply) IN
          /\ statusloop' = [pc |-> "sleeping", reply |-> reply, sent |-> <<status>>]
          /\ queues' = publish(queues, topic_to_queues, "bt.status", status)
  /\ UNCHANGED <<topic_to_queues, closing, obsvars, bt_devices, contacts, cb, mgr,
                 cmdloop, callloop, env_n>>

\* the GetManagedObjects call returns: the status built from the reply is
\* published on bt.status, or the call raised and the failure is logged; then
\* the loop sleeps.  statusloop.reply and .sent keep what this poll received and
\* published.
StatusReply(reply) ==
  /\ statusloop.pc = "polling"
  /\ IF reply.kind = "raise"
     THEN /\ statusloop' = [pc |-> "sleeping", reply |-> reply, sent |-> <<>>]
          /\ UNCHANGED queues
     ELSE LET status == get_bt_status(reply) IN
          /\ statusloop' = [pc |-> "sleeping", reply |-> reply, sent |-> <<status>>]
          /\ queues' = publish(queues, topic_to_queues, "bt.status", status)
  /\ UNCHANGED <<topic_to_queues, closing, obsvars, bt_devices, contacts, cb, mgr,
                 cmdloop, callloop, env_n>>

\* ---- stop()
\* the loops whose task is cancelled while suspended in the queue.get() of
\* its subscribe() generator: the CancelledError passes through the
\* generator's finally block
CancelledInGet ==
  {q \in {"cmd"} : cmdloop.pc = "waiting"} \cup
  {q \in {"call"} : callloop.pc = "waiting"}

\* the loops whose task is cancelled while suspended in the loop body: the
\* generator is dropped, its aclose() left to the event loop
CancelledInBody ==
  {q \in {"cmd"} : cmdloop.pc \in {"call", "set_trusted"} \cup SyncPcs} \cup
  {q \in {"call"} : callloop.pc = "call"}

\* mutant: the cancellation does not reach the status loop
MgrStopLeavingStatus ==
  /\ mgr.pc \notin {"init", "failed", "stopping", "stopped"}
  /\ mgr' = [mgr EXCEPT !.pc = "stopping", !.cfg = 0, !.call = NoRequest,
                        !.at = <<cmdloop.pc, callloop.pc, statusloop.pc>>]
  /\ cmdloop' = [CmdDone(cmdloop.outcome) EXCEPT !.pc = "cancelled",
                                                 !.transfer = cmdloop.transfer]
  /\ callloop' = [pc |-> "cancelled", call |-> NoCall]
  /\ obex' = IF cmdloop.pc \in SyncPcs
             THEN [obex EXCEPT !.files = remove_tmp_file(@, SyncFile)]
             ELSE obex
  /\ topic_to_queues' =
       LET a == IF "cmd" \in CancelledInGet
                THEN Unregister(topic_to_queues, "bt.command", "cmd")
                ELSE topic_to_queues
       IN IF "call" \in CancelledInGet THEN Unregister(a, "bt.call", "call") ELSE a
  /\ queues' = [q \in DOMAIN queues \ CancelledInGet |-> queues[q]]
  /\ closing' = closing \cup CancelledInBody
  /\ UNCHANGED <<published, dropped, sub, probe, bt_devices, contacts, cb, env_n,
                 statusloop>>

\* stop() on a manager whose task has not finished: the task is cancelled
\* wherever _run is suspended; from gather() the cancellation reaches the
\* three loops, each at its own suspension; a sync in progress runs its
\* finally block; a loop cancelled in its body drops its generator, whose
\* aclose() the event loop schedules; stop() is left waiting for the task.
\* mgr.at keeps where the three loops were.
MgrStop ==
  /\ mgr.pc \notin {"init", "failed", "stopping", "stopped"}
  /\ mgr' = [mgr EXCEPT !.pc = "stopping", !.cfg = 0, !.call = NoRequest,
                        !.at = <<cmdloop.pc, callloop.pc, statusloop.pc>>]
  /\ cmdloop' = [CmdDone(cmdloop.outcome) EXCEPT !.pc = "cancelled",
                                                 !.transfer = cmdloop.transfer]
  /\ callloop' = [pc |-> "cancelled", call |-> NoCall]
  /\ statusloop' = [statusloop EXCEPT !.pc = "cancelled"]
  /\ obex' = IF cmdloop.pc \in SyncPcs
             THEN [obex EXCEPT !.files = remove_tmp_file(@, SyncFile)]
             ELSE obex
  /\ topic_to_queues' =
       LET a == IF "cmd" \in CancelledInGet
                THEN Unregister(topic_to_queues, "bt.command", "cmd")
                ELSE topic_to_queues
       IN IF "call" \in CancelledInGet THEN Unregister(a, "bt.call", "call") ELSE a
  /\ queues' = [q \in DOMAIN queues \ CancelledInGet |-> queues[q]]
  /\ closing' = closing \cup CancelledInBody
  /\ UNCHANGED <<published, dropped, sub, probe, bt_devices, contacts, cb, env_n>>

\* the cancelled task is done and `await self._task` in stop() returns.  The
\* event loop runs its callbacks in the order they were scheduled, and the
\* aclose() of a generator dropped by a cancelled loop was scheduled when that
\* loop ended, before the task's completion woke stop(): it has run by now.
MgrStopReturn ==
  /\ mgr.pc = "stopping"
  /\ closing \cap {"cmd", "call"} = {}
  /\ mgr' = [mgr EXCEPT !.pc = "stopped"]
  /\ UNCHANGED <<busvars, obsvars, bt_devices, contacts, cb, cmdloop, callloop,
                 statusloop, env_n>>

\* ---- the manager's consumers
PublishCommand(cmd) ==
  /\ env_n' = env_n + 1
  /\ queues' = publish(queues, topic_to_queues, "bt.command", cmd)
  /\ UNCHANGED <<topic_to_queues, closing, obsvars, bt_devices, contacts, cb, mgr,
                 cmdloop, callloop, statusloop>>

PublishCall(cmd) ==
  /\ env_n' = env_n + 1
  /\ queues' = publish(queues, topic_to_queues, "bt.call", cmd)
  /\ UNCHANGED <<topic_to_queues, closing, obsvars, bt_devices, contacts, cb, mgr,
                 cmdloop, callloop, statusloop>>

\* the trust table as a run can find it: any rows, any flags
TrustTables ==
  UNION {[D -> BOOLEAN] : D \in SUBSET Addresses}

\* a callback that the daemon has not invoked yet
IdleCallback ==
  [pc |-> "idle", method |-> "none", address |-> "absent", name |-> "absent",
   result |-> "none", ret |-> "none", requested |-> <<>>, resolver |-> <<>>,
   skipped |-> FALSE, cancelled |-> FALSE]

\* BluetoothManager.__init__: no task, no connection; agent and config say how
\* _register_agent and the adapter configuration ended
NewManager ==
  [pc |-> "init", sysbus |-> FALSE, session_bus |-> FALSE, exported |-> FALSE,
   cfg |-> 0, call |-> NoRequest, agent |-> "none", config |-> "none",
   at |-> <<>>]

\* the contacts an earlier run has stored
StoredBefore == [a \in Addresses |-> <<[name |-> "Old", number |-> "9"]>>]

\* no session open at the object-transfer daemon, no transient file
NoObex == [sessions |-> 0, files |-> {}]

\* no direct call made; AA stands for the address AA:a
NoProbe ==
  [text |-> <<"A", "A", ":", "a">>, value |-> True, request |-> NoRequest,
   vcf |-> NoVcf]

\* EventBus(), Database over a trust table as it was left, BluetoothManager()
Init ==
  /\ topic_to_queues = <<>>
  /\ queues = <<>>
  /\ closing = {}
  /\ published = <<>>
  /\ dropped = [s \in Subs |-> {}]
  /\ sub = [s \in Subs |-> [pc |-> "new", got |-> <<>>, reg_at |-> 0, unreg_at |-> 0]]
  /\ bt_devices \in TrustTables
  /\ contacts = StoredBefore
  /\ cb = [c \in Callbacks |-> IdleCallback]
  /\ mgr = NewManager
  /\ cmdloop = [CmdDone("none") EXCEPT !.pc = "off"]
  /\ callloop = [pc |-> "off", call |-> NoCall]
  /\ statusloop = [pc |-> "off", reply |-> NoReply, sent |-> <<>>]
  /\ env_n = 0
  /\ obex = NoObex
  /\ probe = NoProbe

\* GetAll replies in which a device that has an address has a name as well
NamedReplies == {r \in PropsReplies : IsStr(r.Address) => IsStr(r.Name)}

\* the commands with lower-case action names and string fields
PlainCommands ==
  {cmd \in Commands : /\ ~ActionRaises(cmd)
                      /\ Lower(cmd.action) = cmd.action
                      /\ cmd.address # "nonstr"}

\* the call commands with lower-case action names
PlainCallCommands ==
  {cmd \in CallCommands : ~ActionRaises(cmd) /\ Lower(cmd.action) = cmd.action}

\* the replies that list no object
EmptyReplies == {r \in StatusReplies : r.kind = "reply" /\ r.body = <<>>}

\* the whole manager, with one gating callback in flight, well-formed commands
\* and no Bluetooth object around
Next ==
  \/ MgrStart
  \/ \E ok \in BOOLEAN : MgrSystemConnected(ok)
  \/ \E ok \in BOOLEAN : MgrSessionConnected(ok)
  \/ MgrAgentRegistered(TRUE)
  \/ \E ok \in BOOLEAN : MgrDefaultAgentReply(ok)
  \/ MgrConfigured(TRUE)
  \/ CmdSubscribe
  \/ CmdTake
  \/ \E ok \in BOOLEAN : CmdCallReply(ok)
  \/ \E ok \in BOOLEAN : CmdSetTrusted(ok)
  \/ \E r \in PlainReplies : SyncCreateReply(r)
  \/ \E r \in PlainReplies : SyncPullReply(r, TRUE)
  \/ SyncRemoveReply("ok")
  \/ \E parsed \in PlainParsed : SyncWaitDone("complete", parsed)
  \/ SyncStore(TRUE)
  \/ CallSubscribe
  \/ CallTake
  \/ \E ok \in BOOLEAN : CallReply(ok)
  \/ StatusPoll
  \/ \E reply \in EmptyReplies : StatusReply(reply)
  \/ AgentInvoke("c1")
  \/ \E reply \in NamedReplies : AgentPropsReply("c1", reply)
  \/ AgentTrustLookup("c1")
  \/ AgentNext("c1")
  \/ AgentSetTrusted("c1")
  \/ AgentCancel("c1")
  \/ AgentAclose("c1")
  \/ \E ev \in Responses : env_n < MaxEvents /\ PublishResponse(ev)
  \/ \E cmd \in PlainCommands : env_n < MaxEvents /\ PublishCommand(cmd)
  \/ \E cmd \in PlainCallCommands : env_n < MaxEvents /\ PublishCall(cmd)

Spec == Init /\ [][Next]_vars

\* the manager's startup and its three loops, without agent callbacks
NextLoops ==
  \/ MgrStart
  \/ \E ok \in BOOLEAN : MgrSystemConnected(ok)
  \/ \E ok \in BOOLEAN : MgrSessionConnected(ok)
  \/ MgrAgentRegistered(TRUE)
  \/ \E ok \in BOOLEAN : MgrDefaultAgentReply(ok)
  \/ MgrConfigured(TRUE)
  \/ CmdSubscribe
  \/ CmdTake
  \/ CmdAclose
  \/ \E ok \in BOOLEAN : CmdCallReply(ok)
  \/ \E ok \in BOOLEAN : CmdSetTrusted(ok)
  \/ \E r \in Replies : SyncCreateReply(r)
  \/ \E r \in Replies, written \in BOOLEAN : SyncPullReply(r, written)
  \/ \E r \in Replies : SyncRemoveReply(r)
  \/ \E status \in TransferEnds, parsed \in PlainParsed : SyncWaitDone(status, parsed)
  \/ \E ok \in BOOLEAN : SyncStore(ok)
  \/ CallSubscribe
  \/ CallTake
  \/ CallAclose
  \/ \E ok \in BOOLEAN : CallReply(ok)
  \/ StatusPoll
  \/ \E reply \in BareReplies : StatusReply(reply)
  \/ \E cmd \in Commands : env_n < MaxEvents /\ PublishCommand(cmd)
  \/ \E cmd \in CallCommands : env_n < MaxEvents /\ PublishCall(cmd)

SpecLoops == Init /\ [][NextLoops]_vars

\* the commands whose action cannot be read
RaisingCommands == {cmd \in Commands : ActionRaises(cmd)}

\* the status loop over every reply, next to a command loop that is fed the
\* commands that end it
NextStatus ==
  \/ MgrStart
  \/ \E ok \in BOOLEAN : MgrSystemConnected(ok)
  \/ \E ok \in BOOLEAN : MgrSessionConnected(ok)
  \/ MgrAgentRegistered(TRUE)
  \/ \E ok \in BOOLEAN : MgrDefaultAgentReply(ok)
  \/ MgrConfigured(TRUE)
  \/ CmdSubscribe
  \/ CmdTake
  \/ CmdAclose
  \/ CallSubscribe
  \/ StatusPoll
  \/ \E reply \in StatusReplies : StatusReply(reply)
  \/ \E cmd \in RaisingCommands : env_n < MaxEvents /\ PublishCommand(cmd)

SpecStatus == Init /\ [][NextStatus]_vars

\* the status loop over the replies without objects, next to a command loop
\* that is fed the commands that end it
NextStatusBare ==
  \/ MgrStart
  \/ \E ok \in BOOLEAN : MgrSystemConnected(ok)
  \/ \E ok \in BOOLEAN : MgrSessionConnected(ok)
  \/ MgrAgentRegistered(TRUE)
  \/ \E ok \in BOOLEAN : MgrDefaultAgentReply(ok)
  \/ MgrConfigured(TRUE)
  \/ CmdSubscribe
  \/ CmdTake
  \/ CmdAclose
  \/ CallSubscribe
  \/ StatusPoll
  \/ \E reply \in BareReplies : StatusReply(reply)
  \/ \E cmd \in RaisingCommands : env_n < MaxEvents /\ PublishCommand(cmd)

\* the sleep ends and the call returns: the event loop keeps running, and the
\* daemon answers every GetManagedObjects call or the connection fails
SpecStatusLive ==
  /\ Init /\ [][NextStatusBare]_vars
  /\ WF_vars(StatusPoll)
  /\ WF_vars(\E reply \in BareReplies : StatusReply(reply))

\* the startup with every outcome of its steps, followed by the three loops
\* over well-formed commands
NextStartup ==
  \/ MgrStart
  \/ \E ok \in BOOLEAN : MgrSystemConnected(ok)
  \/ \E ok \in BOOLEAN : MgrSessionConnected(ok)
  \/ \E ok \in BOOLEAN : MgrAgentRegistered(ok)
  \/ \E ok \in BOOLEAN : MgrDefaultAgentReply(ok)
  \/ \E ok \in BOOLEAN : MgrConfigured(ok)
  \/ CmdSubscribe
  \/ CmdTake
  \/ \E ok \in BOOLEAN : CmdCallReply(ok)
  \/ \E ok \in BOOLEAN : CmdSetTrusted(ok)
  \/ \E r \in PlainReplies : SyncCreateReply(r)
  \/ \E r \in PlainReplies : SyncPullReply(r, TRUE)
  \/ SyncRemoveReply("ok")
  \/ \E parsed \in PlainParsed : SyncWaitDone("complete", parsed)
  \/ SyncStore(TRUE)
  \/ CallSubscribe
  \/ CallTake
  \/ \E ok \in BOOLEAN : CallReply(ok)
  \/ StatusPoll
  \/ \E reply \in EmptyReplies : StatusReply(reply)
  \/ \E cmd \in PlainCommands : env_n < MaxEvents /\ PublishCommand(cmd)
  \/ \E cmd \in PlainCallCommands : env_n < MaxEvents /\ PublishCall(cmd)

SpecStartup == Init /\ [][NextStartup]_vars

\* the sync_contacts commands
SyncCommands == {cmd \in PlainCommands : cmd.action = "sync_contacts"}

\* contact syncs with every outcome of every step, after a startup without
\* failures, up to a stop()
NextSync ==
  \/ MgrStart
  \/ MgrSystemConnected(TRUE)
  \/ MgrSessionConnected(TRUE)
  \/ MgrAgentRegistered(TRUE)
  \/ MgrDefaultAgentReply(TRUE)
  \/ MgrConfigured(TRUE)
  \/ CmdSubscribe
  \/ CmdTake
  \/ CmdAclose
  \/ \E r \in Replies : SyncCreateReply(r)
  \/ \E r \in Replies, written \in BOOLEAN : SyncPullReply(r, written)
  \/ \E r \in Replies : SyncRemoveReply(r)
  \/ \E status \in TransferEnds, parsed \in ParsedLists : SyncWaitDone(status, parsed)
  \/ \E ok \in BOOLEAN : SyncStore(ok)
  \/ \E cmd \in SyncCommands : env_n < MaxEvents /\ PublishCommand(cmd)
  \/ MgrStop
  \/ MgrStopReturn

\* the events the consumers publish around a stop()
MaxStopEvents == 2

\* the manager after a startup without failures, its three loops over
\* well-formed inputs, and a stop() at any moment; the consumers go on
\* publishing after it
NextStop ==
  \/ MgrStart
  \/ MgrSystemConnected(TRUE)
  \/ MgrSessionConnected(TRUE)
  \/ MgrAgentRegistered(TRUE)
  \/ MgrDefaultAgentReply(TRUE)
  \/ MgrConfigured(TRUE)
  \/ CmdSubscribe
  \/ CmdTake
  \/ CmdAclose
  \/ \E ok \in BOOLEAN : CmdCallReply(ok)
  \/ \E ok \in BOOLEAN : CmdSetTrusted(ok)
  \/ \E r \in PlainReplies : SyncCreateReply(r)
  \/ \E r \in PlainReplies : SyncPullReply(r, TRUE)
  \/ SyncRemoveReply("ok")
  \/ \E parsed \in PlainParsed : SyncWaitDone("complete", parsed)
  \/ SyncStore(TRUE)
  \/ CallSubscribe
  \/ CallTake
  \/ CallAclose
  \/ \E ok \in BOOLEAN : CallReply(ok)
  \/ StatusPoll
  \/ \E reply \in EmptyReplies : StatusReply(reply)
  \/ \E cmd \in PlainCommands : env_n < MaxStopEvents /\ PublishCommand(cmd)
  \/ \E cmd \in PlainCallCommands : env_n < MaxStopEvents /\ PublishCall(cmd)
  \/ MgrStop
  \/ MgrStopReturn

\* the commands that keep the command loop suspended for long
LongCommands ==
  {cmd \in PlainCommands : cmd.action \in {"connect", "sync_contacts"}
                           /\ cmd.address = "AA"}

\* the call commands that send a call
SendingCallCommands ==
  {cmd \in PlainCallCommands : OfonoCall(ActionOf(cmd), cmd) # NoCall}

\* the three loops side by side: connects and contact syncs on bt.command,
\* call commands on bt.call, the status poll
NextIndependent ==
  \/ MgrStart
  \/ MgrSystemConnected(TRUE)
  \/ MgrSessionConnected(TRUE)
  \/ MgrAgentRegistered(TRUE)
  \/ MgrDefaultAgentReply(TRUE)
  \/ MgrConfigured(TRUE)
  \/ CmdSubscribe
  \/ CmdTake
  \/ \E ok \in BOOLEAN : CmdCallReply(ok)
  \/ SyncCreateReply("ok")
  \/ SyncPullReply("ok", TRUE)
  \/ \E parsed \in PlainParsed : SyncWaitDone("complete", parsed)
  \/ SyncStore(TRUE)
  \/ CallSubscribe
  \/ CallTake
  \/ \E ok \in BOOLEAN : CallReply(ok)
  \/ StatusPoll
  \/ \E reply \in EmptyReplies : StatusReply(reply)
  \/ \E cmd \in LongCommands : env_n < MaxStopEvents /\ PublishCommand(cmd)
  \/ \E cmd \in SendingCallCommands : env_n < MaxStopEvents /\ PublishCall(cmd)

\* as Init, over a trust table without rows
InitSync ==
  /\ topic_to_queues = <<>>
  /\ queues = <<>>
  /\ closing = {}
  /\ published = <<>>
  /\ dropped = [s \in Subs |-> {}]
  /\ sub = [s \in Subs |-> [pc |-> "new", got |-> <<>>, reg_at |-> 0, unreg_at |-> 0]]
  /\ bt_devices = <<>>
  /\ contacts = StoredBefore
  /\ cb = [c \in Callbacks |-> IdleCallback]
  /\ mgr = NewManager
  /\ cmdloop = [CmdDone("none") EXCEPT !.pc = "off"]
  /\ callloop = [pc |-> "off", call |-> NoCall]
  /\ statusloop = [pc |-> "off", reply |-> NoReply, sent |-> <<>>]
  /\ env_n = 0
  /\ obex = NoObex
  /\ probe = NoProbe

SpecSync == InitSync /\ [][NextSync]_vars

SpecStop == InitSync /\ [][NextStop]_vars

\* a file as the daemon can have written it
InitParse ==
  /\ topic_to_queues = <<>>
  /\ queues = <<>>
  /\ closing = {}
  /\ published = <<>>
  /\ dropped = [s \in Subs |-> {}]
  /\ sub = [s \in Subs |-> [pc |-> "new", got |-> <<>>, reg_at |-> 0, unreg_at |-> 0]]
  /\ bt_devices = <<>>
  /\ contacts = StoredBefore
  /\ cb = [c \in Callbacks |-> IdleCallback]
  /\ mgr = NewManager
  /\ cmdloop = [CmdDone("none") EXCEPT !.pc = "off"]
  /\ callloop = [pc |-> "off", call |-> NoCall]
  /\ statusloop = [pc |-> "off", reply |-> NoReply, sent |-> <<>>]
  /\ env_n = 0
  /\ obex = NoObex
  /\ probe \in [text : {NoProbe.text}, value : {True}, request : {NoRequest},
                 vcf : [file : VcfFiles, called : {FALSE}, result : {<<>>}]]

\* the parser applied to the file
NextParse == ParseVcfFile

SpecParse == InitParse /\ [][NextParse]_vars

\* one contact sync, read by read
NextPoll ==
  \/ MgrStart
  \/ MgrSystemConnected(TRUE)
  \/ MgrSessionConnected(TRUE)
  \/ MgrAgentRegistered(TRUE)
  \/ MgrDefaultAgentReply(TRUE)
  \/ MgrConfigured(TRUE)
  \/ CmdSubscribe
  \/ CmdTake
  \/ SyncCreateReply("ok")
  \/ \E written \in BOOLEAN : SyncPullReply("ok", written)
  \/ \E reply \in ReadReplies, parsed \in PlainParsed : SyncStatusRead(reply, parsed)
  \/ \E parsed \in PlainParsed : SyncPollSleep(parsed)
  \/ \E ok \in BOOLEAN : SyncStore(ok)
  \/ \E cmd \in SyncCommands : env_n < MaxEvents /\ PublishCommand(cmd)

\* every status read is answered (or the connection fails) and every sleep ends
SpecPollLive ==
  /\ InitSync /\ [][NextPoll]_vars
  /\ WF_vars(\E reply \in ReadReplies, parsed \in PlainParsed :
               SyncStatusRead(reply, parsed))
  /\ WF_vars(\E parsed \in PlainParsed : SyncPollSleep(parsed))

\* the event loop keeps running the call-control loop and the status loop and
\* their calls are answered; nothing is assumed about the command loop: the
\* reply it waits for, or the end of the transfer it polls, may never come
SpecIndependentLive ==
  /\ InitSync /\ [][NextIndependent]_vars
  /\ WF_vars(CallSubscribe)
  /\ WF_vars(CallTake)
  /\ WF_vars(\E ok \in BOOLEAN : CallReply(ok))
  /\ WF_vars(StatusPoll)
  /\ WF_vars(\E reply \in EmptyReplies : StatusReply(reply))

\* ---- direct calls
\* _set_adapter_property(prop, value) called with the value of the run
SetAdapterProperty(prop) ==
  /\ mgr.sysbus
  /\ probe.request = NoRequest
  /\ probe' = [probe EXCEPT !.request = set_adapter_property(prop, probe.value)]
  /\ UNCHANGED <<busvars, published, dropped, sub, obex, bt_devices, contacts, cb,
                 mgr, cmdloop, callloop, statusloop, env_n>>

\* the commands that write an adapter property
PropertyCommands ==
  {cmd \in PlainCommands : cmd.action \in {"discoverable", "pairable", "alias"}}

\* the commands that address a device object
DeviceCommands ==
  {cmd \in PlainCommands : cmd.action \in {"connect", "disconnect"}}

\* as Init, with any Python value as the argument of the direct call
InitProperty ==
  /\ topic_to_queues = <<>>
  /\ queues = <<>>
  /\ closing = {}
  /\ published = <<>>
  /\ dropped = [s \in Subs |-> {}]
  /\ sub = [s \in Subs |-> [pc |-> "new", got |-> <<>>, reg_at |-> 0, unreg_at |-> 0]]
  /\ bt_devices \in TrustTables
  /\ contacts = StoredBefore
  /\ cb = [c \in Callbacks |-> IdleCallback]
  /\ mgr = NewManager
  /\ cmdloop = [CmdDone("none") EXCEPT !.pc = "off"]
  /\ callloop = [pc |-> "off", call |-> NoCall]
  /\ statusloop = [pc |-> "off", reply |-> NoReply, sent |-> <<>>]
  /\ env_n = 0
  /\ obex = NoObex
  /\ probe \in [text : {NoProbe.text}, value : PyValues, request : {NoRequest},
                 vcf : {NoVcf}]

\* the adapter property writes: those of the startup, those of the command
\* loop, and a direct call
NextProperty ==
  \/ MgrStart
  \/ MgrSystemConnected(TRUE)
  \/ MgrSessionConnected(TRUE)
  \/ MgrAgentRegistered(TRUE)
  \/ MgrDefaultAgentReply(TRUE)
  \/ \E ok \in BOOLEAN : MgrConfigured(ok)
  \/ CmdSubscribe
  \/ CmdTake
  \/ \E ok \in BOOLEAN : CmdCallReply(ok)
  \/ \E prop \in Range(ConfigProps) : SetAdapterProperty(prop)
  \/ \E cmd \in PropertyCommands : env_n < MaxEvents /\ PublishCommand(cmd)

SpecProperty == InitProperty /\ [][NextProperty]_vars

\* as Init, with any text as the address AA stands for
InitPath ==
  /\ topic_to_queues = <<>>
  /\ queues = <<>>
  /\ closing = {}
  /\ published = <<>>
  /\ dropped = [s \in Subs |-> {}]
  /\ sub = [s \in Subs |-> [pc |-> "new", got |-> <<>>, reg_at |-> 0, unreg_at |-> 0]]
  /\ bt_devices \in TrustTables
  /\ contacts = StoredBefore
  /\ cb = [c \in Callbacks |-> IdleCallback]
  /\ mgr = NewManager
  /\ cmdloop = [CmdDone("none") EXCEPT !.pc = "off"]
  /\ callloop = [pc |-> "off", call |-> NoCall]
  /\ statusloop = [pc |-> "off", reply |-> NoReply, sent |-> <<>>]
  /\ env_n = 0
  /\ obex = NoObex
  /\ probe \in [text : Texts, value : {True}, request : {NoRequest}, vcf : {NoVcf}]

\* the connect and disconnect commands after a startup without failures
NextPath ==
  \/ MgrStart
  \/ MgrSystemConnected(TRUE)
  \/ MgrSessionConnected(TRUE)
  \/ MgrAgentRegistered(TRUE)
  \/ MgrDefaultAgentReply(TRUE)
  \/ MgrConfigured(TRUE)
  \/ CmdSubscribe
  \/ CmdTake
  \/ \E ok \in BOOLEAN : CmdCallReply(ok)
  \/ \E cmd \in DeviceCommands : env_n < MaxEvents /\ PublishCommand(cmd)

SpecPath == InitPath /\ [][NextPath]_vars

\* the agent from its export on, with gating callbacks running concurrently
NextPair ==
  \/ MgrStart
  \/ \E ok \in BOOLEAN : MgrSystemConnected(ok)
  \/ \E ok \in BOOLEAN : MgrSessionConnected(ok)
  \/ \E c \in Callbacks : AgentInvoke(c)
  \/ \E c \in Callbacks, reply \in NamedReplies : AgentPropsReply(c, reply)
  \/ \E c \in Callbacks : AgentTrustLookup(c)
  \/ \E c \in Callbacks : AgentNext(c)
  \/ \E c \in Callbacks : AgentSetTrusted(c)
  \/ \E c \in Callbacks : AgentCancel(c)
  \/ \E c \in Callbacks : AgentAclose(c)
  \/ \E ev \in Responses : env_n < MaxResponses /\ PublishResponse(ev)

SpecPair == Init /\ [][NextPair]_vars

\* the agent's methods: one callback through any method, next to a callback
\* through RequestConfirmation
NextAgent ==
  \/ MgrStart
  \/ \E ok \in BOOLEAN : MgrSystemConnected(ok)
  \/ \E ok \in BOOLEAN : MgrSessionConnected(ok)
  \/ \E m \in AgentMethods : AgentInvokeMethod("c1", m)
  \/ AgentInvoke("c2")
  \/ \E reply \in PropsReplies : AgentPropsReply("c1", reply)
  \/ \E reply \in NamedReplies : AgentPropsReply("c2", reply)
  \/ \E c \in Callbacks : AgentTrustLookup(c)
  \/ \E c \in Callbacks : AgentNext(c)
  \/ \E c \in Callbacks : AgentSetTrusted(c)
  \/ \E c \in Callbacks : AgentCancel(c)
  \/ \E c \in Callbacks : AgentAclose(c)
  \/ \E ev \in Responses : env_n < MaxEvents /\ PublishResponse(ev)

SpecAgent == Init /\ [][NextAgent]_vars

\* ------------------------------------------- pairing properties
\* callback c takes the oldest queued bt.pair_response in this step
Consumes(c) ==
  /\ cb[c].pc = "waiting"
  /\ queues[c].items # <<>>
  /\ c \in DOMAIN queues'
  /\ queues'[c].items = Tail(queues[c].items)

\* c's subscription is registered on bt.pair_response in the next state
StillSubscribed(c) ==
  c \in Range(Snapshot(topic_to_queues', "bt.pair_response"))

\* the bt_devices row of address a says trusted
RowTrusted(db, a) == a \in DOMAIN db /\ db[a]

\* C1: while a decision for X is pending, taking a bt.pair_response for another
\* address (whatever its approved flag) leaves it pending, subscribed, and the
\* trust table as it was; taking one for X with approved true resolves it, and
\* the callback then returns success.
ApprovalCorrelation ==
  [][\A c \in Callbacks :
      /\ Consumes(c) =>
           LET ev == Head(queues[c].items) IN
           /\ ev.address # cb[c].address =>
                /\ cb'[c].pc = "waiting"
                /\ StillSubscribed(c)
                /\ bt_devices' = bt_devices
           /\ (ev.address = cb[c].address /\ ev.approved = "true") =>
                /\ cb'[c].pc = "set_trusted"
                /\ cb'[c].resolver = <<ev>>
      /\ (cb[c].pc = "set_trusted" /\ cb'[c].pc # "set_trusted") =>
           /\ cb'[c].pc = "done"
           /\ cb'[c].result = "ok"]_vars

\* a decision skipped a response for another address, was then resolved by an
\* approving response for its own, and the callback returned success
ApprovalCorrelationWitness ==
  \E c \in Callbacks :
    /\ cb[c].pc = "done" /\ cb[c].result = "ok"
    /\ cb[c].skipped
    /\ cb[c].resolver = <<[address |-> cb[c].address, approved |-> "true"]>>

\* C2: a device's trusted flag goes from false to true only in the step that
\* completes a bt.command with action trust for that address, or in the step
\* that completes a decision for that address resolved by an approving response.
TrustOnlyByCommandOrApproval ==
  [][\A a \in Addresses :
      (~RowTrusted(bt_devices, a) /\ RowTrusted(bt_devices', a)) =>
        \/ /\ cmdloop.pc = "set_trusted"
           /\ cmdloop.cmd.action \in {"trust", "TRUST"}
           /\ cmdloop.cmd.address = a
           /\ cmdloop'.pc = "waiting"
        \/ \E c \in Callbacks :
             /\ cb[c].pc = "set_trusted"
             /\ cb[c].address = a
             /\ cb[c].resolver = <<[address |-> a, approved |-> "true"]>>
             /\ cb'[c].pc = "done"]_vars

\* an approved decision has made its device trusted
TrustGrantedWitness ==
  \E c \in Callbacks :
    /\ cb[c].pc = "done" /\ cb[c].result = "ok"
    /\ cb[c].resolver # <<>>
    /\ RowTrusted(bt_devices, cb[c].address)

\* C3: once a decision for X has been resolved by an approving response and the
\* callback has returned, is_trusted(X) is true (no command revokes trust in
\* SpecPair).
ApprovedIsTrusted ==
  \A c \in Callbacks :
    (cb[c].pc = "done" /\ cb[c].result = "ok" /\ cb[c].resolver # <<>>)
      => is_bt_trusted(bt_devices, cb[c].address)

\* C4: taking a bt.pair_response for X whose approved flag is false or missing
\* fails the pending callback for X with org.bluez.Error.Rejected in that same
\* step, and the trust table is left as it was.
RejectionKeepsTrust ==
  [][\A c \in Callbacks :
      (/\ Consumes(c)
       /\ Head(queues[c].items).address = cb[c].address
       /\ Head(queues[c].items).approved \in {"false", "absent"}) =>
        /\ cb'[c].pc = "done"
        /\ cb'[c].result = "Rejected"
        /\ bt_devices' = bt_devices]_vars

\* a callback for a device with an untrusted row was rejected by a response
\* without an approved field
RejectionWitness ==
  \E c \in Callbacks :
    /\ cb[c].pc = "done" /\ cb[c].result = "Rejected"
    /\ cb[c].resolver = <<[address |-> cb[c].address, approved |-> "absent"]>>
    /\ cb[c].address \in DOMAIN bt_devices
    /\ ~bt_devices[cb[c].address]

\* C5: when the trust lookup of a callback runs for a device whose row says
\* trusted, the callback returns success in that step, having published no
\* bt.pair_request, and the step leaves the bus (registrations and queues) and
\* the trust table as they were.
TrustedShortCircuit ==
  [][\A c \in Callbacks :
      (/\ cb[c].pc = "is_trusted"
       /\ RowTrusted(bt_devices, cb[c].address)
       /\ cb'[c] # cb[c]) =>
        /\ cb'[c].pc = "done"
        /\ cb'[c].result = "ok"
        /\ cb'[c].requested = <<>>
        /\ topic_to_queues' = topic_to_queues
        /\ queues' = queues
        /\ bt_devices' = bt_devices]_vars

\* a callback for a trusted device has returned success while another decision
\* is waiting on bt.pair_response
ShortCircuitWitness ==
  \E c, d \in Callbacks :
    /\ cb[c].pc = "done" /\ cb[c].result = "ok"
    /\ cb[c].resolver = <<>>
    /\ RowTrusted(bt_devices, cb[c].address)
    /\ cb[d].pc = "waiting"

\* C6: a decision is resolved only by a response carrying its own address, and
\* while a decision for B is pending B is trusted only if another callback for
\* B was approved by a response for B.
CrossAddressIsolation ==
  \A c \in Callbacks :
    /\ cb[c].resolver # <<>> => cb[c].resolver[1].address = cb[c].address
    /\ (cb[c].pc = "waiting" /\ RowTrusted(bt_devices, cb[c].address)) =>
         \E d \in Callbacks \ {c} :
           /\ cb[d].pc = "done" /\ cb[d].result = "ok"
           /\ cb[d].resolver = <<[address |-> cb[c].address, approved |-> "true"]>>

\* two decisions for different addresses were pending together; a response for
\* one resolved it and made its device trusted, the other took that response
\* and is still pending with its device untrusted
IsolationWitness ==
  \E c, d \in Callbacks :
    /\ cb[c].address # cb[d].address
    /\ cb[c].pc = "done" /\ cb[c].result = "ok" /\ cb[c].resolver # <<>>
    /\ RowTrusted(bt_devices, cb[c].address)
    /\ cb[d].pc = "waiting" /\ cb[d].skipped
    /\ queues[d].items = <<>>
    /\ cb[d].address \in DOMAIN bt_devices
    /\ ~bt_devices[cb[d].address]

\* C7: a callback has published no bt.pair_request before its trust lookup, nor
\* ever if it had no address or its device was trusted; from the lookup of an
\* untrusted device on it has published exactly one, carrying the device's
\* address and name, however many responses it has skipped.
ExactlyOneRequest ==
  \A c \in Callbacks :
    LET n == Len(cb[c].requested)
        untrusted == \/ cb[c].pc \in {"waiting", "set_trusted"}
                     \/ cb[c].pc = "done" /\ cb[c].resolver # <<>>
                     \/ /\ cb[c].pc = "done" /\ cb[c].result = "Rejected"
                        /\ IsStr(cb[c].address)
    IN IF untrusted
       THEN cb[c].requested =
              <<[address |-> cb[c].address,
                 name |-> IF cb[c].name \in {"absent", "nonstr"}
                          THEN "None" ELSE cb[c].name]>>
       ELSE n = 0

\* a decision that skipped a response and was then resolved published once, and
\* a callback without an address has finished
OneRequestWitness ==
  \E c, d \in Callbacks :
    /\ cb[c].pc = "done" /\ cb[c].skipped /\ cb[c].resolver # <<>>
    /\ Len(cb[c].requested) = 1
    /\ cb[d].pc = "done" /\ ~IsStr(cb[d].address)

\* ------------------------------------------------- bus workload (SpecBus)
\* some producer publishes a fresh event on a topic
BusPublish(topic) ==
  /\ Len(published) < MaxPublishes
  /\ LET ev == Len(published) + 1 IN
     /\ queues' = publish(queues, topic_to_queues, topic, ev)
     /\ published' = Append(published, [topic |-> topic, event |-> ev])
     /\ dropped' = [s \in Subs |->
          IF s \in Overflowed(queues, topic_to_queues, topic)
          THEN dropped[s] \cup {ev} ELSE dropped[s]]
  /\ UNCHANGED <<topic_to_queues, closing, sub>>
  /\ UNCHANGED btvars

\* a consumer starts iterating subscribe(topic, cap): the generator runs to
\* its first queue.get()
SubSubscribe(s, topic, cap) ==
  /\ sub[s].pc = "new"
  /\ subscribe_register(s, topic, cap)
  /\ sub' = [sub EXCEPT ![s].pc = "waiting", ![s].reg_at = Len(published)]
  /\ UNCHANGED <<closing, published, dropped>>
  /\ UNCHANGED btvars

\* queue.get() returns the oldest event and the generator yields it; the
\* consumer's loop body either asks for the next event or leaves the loop,
\* which drops the generator (its aclose() is then run by the event loop)
SubGet(s, stop) ==
  /\ sub[s].pc = "waiting"
  /\ queues[s].items # <<>>
  /\ queues' = [queues EXCEPT ![s].items = Tail(@)]
  /\ sub' = [sub EXCEPT ![s].got = Append(@, Head(queues[s].items)),
                        ![s].pc = IF stop THEN "closing" ELSE "waiting"]
  /\ closing' = IF stop THEN closing \cup {s} ELSE closing
  /\ UNCHANGED <<topic_to_queues, published, dropped>>
  /\ UNCHANGED btvars

\* the scheduled aclose() of a dropped generator runs its finally block
SubAclose(s) ==
  /\ sub[s].pc = "closing"
  /\ s \in closing
  /\ subscribe_finally(s)
  /\ closing' = closing \ {s}
  /\ sub' = [sub EXCEPT ![s].pc = "done", ![s].unreg_at = Len(published)]
  /\ UNCHANGED <<published, dropped>>
  /\ UNCHANGED btvars

\* the consumer's task is cancelled while it waits in queue.get():
\* CancelledError unwinds through the generator's finally block
SubCancel(s) ==
  /\ sub[s].pc = "waiting"
  /\ subscribe_finally(s)
  /\ sub' = [sub EXCEPT ![s].pc = "done", ![s].unreg_at = Len(published)]
  /\ UNCHANGED <<closing, published, dropped>>
  /\ UNCHANGED btvars

NextBus ==
  \/ \E t \in Topics : BusPublish(t)
  \/ \E s \in Subs, t \in Topics, c \in Caps : SubSubscribe(s, t, c)
  \/ \E s \in Subs, stop \in BOOLEAN : SubGet(s, stop)
  \/ \E s \in Subs : SubAclose(s)
  \/ \E s \in Subs : SubCancel(s)

\* EventBus() on its own: the manager is never started
InitBusOnly ==
  /\ topic_to_queues = <<>>
  /\ queues = <<>>
  /\ closing = {}
  /\ published = <<>>
  /\ dropped = [s \in Subs |-> {}]
  /\ sub = [s \in Subs |-> [pc |-> "new", got |-> <<>>, reg_at |-> 0, unreg_at |-> 0]]
  /\ bt_devices = <<>>
  /\ contacts = StoredBefore
  /\ cb = [c \in Callbacks |-> IdleCallback]
  /\ mgr = NewManager
  /\ cmdloop = [CmdDone("none") EXCEPT !.pc = "off"]
  /\ callloop = [pc |-> "off", call |-> NoCall]
  /\ statusloop = [pc |-> "off", reply |-> NoReply, sent |-> <<>>]
  /\ env_n = 0
  /\ obex = NoObex
  /\ probe = NoProbe

SpecBus == InitBusOnly /\ [][NextBus]_vars

\* the event loop keeps running: the aclose() it scheduled for a dropped
\* generator is eventually run
SpecBusLive == SpecBus /\ \A s \in Subs : WF_vars(SubAclose(s))

\* ------------------------------------------------ bus properties (SpecBus)
\* the events published on s's topic after s registered, in publish order
RECURSIVE SinceFrom(_, _, _)
SinceFrom(log, topic, from) ==
  IF log = <<>> THEN <<>>
  ELSE (IF Head(log).topic = topic /\ Head(log).event > from
        THEN <<Head(log).event>> ELSE <<>>) \o SinceFrom(Tail(log), topic, from)

Registered(s) == sub[s].pc \in {"waiting", "closing"}

Since(s) == SinceFrom(published, queues[s].topic, sub[s].reg_at)

\* what s has been handed so far: consumed, then still queued
Seen(s) == sub[s].got \o queues[s].items

RECURSIVE IsSubseq(_, _)
IsSubseq(a, b) ==
  IF a = <<>> THEN TRUE
  ELSE IF b = <<>> THEN FALSE
  ELSE IF Head(a) = Head(b) THEN IsSubseq(Tail(a), Tail(b))
  ELSE IsSubseq(a, Tail(b))

\* C8: a subscription of capacity K >= 1 that has consumed nothing holds exactly
\* the first K events published to its topic since it registered (the later ones
\* are dropped), while a subscription on the same topic whose capacity was never
\* reached has been handed every one of them.
OverflowLossy ==
  \A s \in Subs : Registered(s) =>
    /\ (queues[s].maxsize >= 1 /\ sub[s].got = <<>>)
         => queues[s].items = Take(Since(s), queues[s].maxsize)
    /\ (queues[s].maxsize <= 0 \/ Len(Since(s)) <= queues[s].maxsize)
         => Seen(s) = Since(s)

\* a full subscription has lost its (K+1)-th event while the other subscription
\* on the same topic, registered no later, holds all K+1
OverflowWitness ==
  \E s, r \in Subs :
    /\ s # r /\ Registered(s) /\ Registered(r)
    /\ queues[s].topic = queues[r].topic
    /\ queues[s].maxsize >= 1 /\ sub[s].got = <<>>
    /\ Len(Since(s)) = queues[s].maxsize + 1
    /\ Len(queues[s].items) = queues[s].maxsize
    /\ sub[r].reg_at <= sub[s].reg_at
    /\ Len(Seen(r)) >= queues[s].maxsize + 1

\* C9: what one subscription yields, followed by what it still holds, is a
\* subsequence of the events published to its topic after it registered:
\* same order, nothing twice.
PerSubscriberFifo ==
  \A s \in Subs : Registered(s) => IsSubseq(Seen(s), Since(s))

\* a subscription has yielded two events and lost one in between or after
FifoWitness ==
  \E s \in Subs :
    /\ Registered(s)
    /\ Len(sub[s].got) >= 2
    /\ Len(Since(s)) > Len(Seen(s))

\* C10: every registered subscription has been handed exactly the events
\* published to its own topic after its own registration, less those that met
\* a full queue: none from before it registered, none from another topic.
FanOut ==
  \A s \in Subs : Registered(s) =>
    Range(Seen(s)) =
      {published[i].event : i \in {j \in 1..Len(published) :
          /\ j > sub[s].reg_at
          /\ published[j].topic = queues[s].topic}} \ dropped[s]

\* two subscriptions on one topic, the second registered after an event the first
\* got, both handed a later event, and an event on the other topic in the log
FanOutWitness ==
  \E s, r \in Subs :
    /\ s # r /\ Registered(s) /\ Registered(r)
    /\ queues[s].topic = queues[r].topic
    /\ sub[s].reg_at < sub[r].reg_at
    /\ \E e \in Range(Seen(s)) : e <= sub[r].reg_at
    /\ Range(Seen(s)) \cap Range(Seen(r)) # {}
    /\ \E i \in 1..Len(published) : published[i].topic # queues[s].topic

\* the topics on which queue q is registered
RegisteredOn(t2q, q) == {t \in DOMAIN t2q : q \in Range(t2q[t])}

\* C11: a consumer's queue is registered exactly from its subscribe until its
\* generator is closed; the step that finishes consumer s (the aclose() after
\* it left its loop, or its cancellation while waiting) removes the queue of s
\* from its topic's registration and leaves every other registration and every
\* other queue as it was; and a consumer that left its loop is eventually
\* finished, so its queue does not stay registered forever.
GuaranteedUnsubscribe ==
  /\ [](\A s \in Subs :
         /\ RegisteredOn(topic_to_queues, s) # {} <=> Registered(s)
         /\ Registered(s) => RegisteredOn(topic_to_queues, s) = {queues[s].topic})
  /\ [][\A s \in Subs :
         (sub[s].pc # "done" /\ sub'[s].pc = "done") =>
           /\ RegisteredOn(topic_to_queues', s) = {}
           /\ \A r \in Subs \ {s} :
                /\ RegisteredOn(topic_to_queues', r) = RegisteredOn(topic_to_queues, r)
                /\ r \in DOMAIN queues => (r \in DOMAIN queues' /\ queues'[r] = queues[r])
           /\ \A t \in DOMAIN topic_to_queues :
                topic_to_queues'[t] = RemoveFirst(topic_to_queues[t], s)]_vars
  /\ \A s \in Subs : (sub[s].pc = "closing") ~> (sub[s].pc = "done")

\* one consumer has left its loop and been unsubscribed; the other, registered
\* on the same topic, has since been handed a later event
UnsubscribeWitness ==
  \E s, r \in Subs :
    /\ s # r
    /\ sub[s].pc = "done" /\ sub[s].got # <<>>
    /\ Registered(r)
    /\ published[sub[s].got[1]].topic = queues[r].topic
    /\ sub[r].reg_at < sub[s].unreg_at
    /\ \E e \in Range(Seen(r)) : e > sub[s].unreg_at

\* C12: a publish on a topic that has no registered queue (no key for the topic,
\* or a key whose list has been emptied by unsubscribes) changes neither the
\* registrations nor any queue; and no subscription ever holds or has yielded an
\* event published before it registered.
PublishWithoutSubscribers ==
  /\ [][(/\ Len(published') = Len(published) + 1
          /\ LET t == published'[Len(published')].topic IN
             t \in DOMAIN topic_to_queues => topic_to_queues[t] = <<>>) =>
          /\ topic_to_queues' = topic_to_queues
          /\ queues' = queues
          /\ closing' = closing]_vars
  /\ [](\A s \in Subs : Registered(s) =>
          \A e \in Range(Seen(s)) : e > sub[s].reg_at)

\* an event was published on a topic after its only subscriber had unsubscribed
\* and before the next one registered; the new subscription has since been
\* handed a later event and not that one
NoSubscriberWitness ==
  \E s, r \in Subs : \E i \in 1..Len(published) :
    /\ s # r
    /\ sub[r].pc = "done" /\ sub[r].got # <<>>
    /\ Registered(s)
    /\ published[sub[r].got[1]].topic = queues[s].topic
    /\ published[i].topic = queues[s].topic
    /\ sub[r].unreg_at < i /\ i <= sub[s].reg_at
    /\ topic_to_queues[queues[s].topic] = <<s>>
    /\ Seen(s) # <<>>
    /\ i \notin Range(Seen(s))

DecisionSucceeds(r) ==
  /\ r.address \in Addresses
  /\ \/ r.requested = <<>>
     \/ r.resolver # <<>> /\ r.resolver[1].approved = "true"

\* the five callbacks the claim names
GatingMethods ==
  {"RequestConfirmation", "RequestAuthorization", "AuthorizeService",
   "RequestPinCode", "RequestPasskey"}

\* C14: for each of RequestConfirmation, RequestAuthorization, AuthorizeService,
\* RequestPinCode and RequestPasskey, a finished callback succeeded exactly when
\* its device was trusted at the lookup or an approving response resolved it, it
\* published either nothing or the one request for its device, and two finished
\* callbacks with the same device, request and resolving response ended alike;
\* the trust table changes only by the row of an approved callback's device
\* being set trusted; a method has returned a value only when the decision
\* succeeded: "0000" for RequestPinCode, 0 for RequestPasskey, None for the others.
AgentMethodsAlike ==
  /\ [](\A c \in Callbacks : cb[c].method \in GatingMethods =>
         /\ cb[c].pc = "done" =>
              /\ cb[c].result = IF DecisionSucceeds(cb[c]) THEN "ok" ELSE "Rejected"
              /\ cb[c].requested \in
                   {<<>>, <<PairRequest(cb[c].address, cb[c].name)>>}
         /\ cb[c].ret = IF cb[c].pc = "done" /\ cb[c].result = "ok"
                         THEN CASE cb[c].method = "RequestPinCode" -> "0000"
                                [] cb[c].method = "RequestPasskey" -> "0"
                                [] OTHER -> "None"
                         ELSE "none"
         /\ \A d \in Callbacks :
              (/\ cb[d].method \in GatingMethods
               /\ cb[c].pc = "done" /\ cb[d].pc = "done"
               /\ cb[c].address = cb[d].address
               /\ cb[c].requested = cb[d].requested
               /\ cb[c].resolver = cb[d].resolver) => cb[c].result = cb[d].result)
  /\ [][bt_devices' # bt_devices =>
         \E c \in Callbacks :
           /\ cb[c].pc = "set_trusted" /\ cb'[c].pc = "done"
           /\ cb[c].address \in DOMAIN bt_devices
           /\ bt_devices' = [bt_devices EXCEPT ![cb[c].address] = TRUE]]_vars

\* a RequestPinCode callback and a RequestConfirmation callback for the same
\* untrusted device published the same request, were resolved by the same
\* approving response and both succeeded, the first returning "0000"
MethodsAlikeWitness ==
  /\ cb["c1"].method = "RequestPinCode" /\ cb["c2"].method = "RequestConfirmation"
  /\ cb["c1"].pc = "done" /\ cb["c2"].pc = "done"
  /\ cb["c1"].address = cb["c2"].address
  /\ cb["c1"].requested = cb["c2"].requested /\ cb["c1"].requested # <<>>
  /\ cb["c1"].resolver = cb["c2"].resolver /\ cb["c1"].resolver # <<>>
  /\ cb["c1"].result = "ok" /\ cb["c2"].result = "ok"
  /\ cb["c1"].ret = "0000" /\ cb["c2"].ret = "None"

\* the cmd queue's oldest command is taken in this step
CmdTaken ==
  /\ cmdloop.pc = "waiting"
  /\ queues["cmd"].items # <<>>
  /\ "cmd" \in DOMAIN queues'
  /\ queues'["cmd"].items = Tail(queues["cmd"].items)

CommandLoopNeverEnds ==
  cmdloop.pc \notin {"off", "start"} =>
    /\ cmdloop.pc # "dead"
    /\ "cmd" \in Range(Snapshot(topic_to_queues, "bt.command"))

\* C17: the step in which the command loop finishes a trust command for address
\* X with flag T without a failure leaves is_bt_trusted(X) equal to T, whether
\* or not X had a row, and every other row as it was.
TrustCommandTakesEffect ==
  [][(/\ cmdloop.pc = "set_trusted"
      /\ cmdloop'.pc = "waiting" /\ cmdloop'.outcome = "done") =>
      /\ is_bt_trusted(bt_devices', cmdloop.cmd.address) = TrustedArg(cmdloop.cmd)
      /\ \A a \in DOMAIN bt_devices \ {cmdloop.cmd.address} :
           a \in DOMAIN bt_devices' /\ bt_devices'[a] = bt_devices[a]]_vars

\* the call queue's oldest command is taken in this step
CallTaken ==
  /\ callloop.pc = "waiting"
  /\ queues["call"].items # <<>>
  /\ "call" \in DOMAIN queues'
  /\ queues'["call"].items = Tail(queues["call"].items)

\* C18: taking a bt.call command sends exactly the call its action maps to and
\* waits for the reply: Answer for answer, Hangup for hangup and for decline,
\* Dial(number, "default") for dial with a number, and no call for any other
\* action or dial without a number; a call is sent in no other step; and the
\* reply to a call, error or not, puts the loop back to waiting for the next
\* command with its subscription registered.
CallControlMapping ==
  [][/\ CallTaken =>
         LET cmd == Head(queues["call"].items)
             expected ==
               CASE cmd.action \in {"answer", "ANSWER"} ->
                      [member |-> "Answer", body |-> <<>>]
                 [] cmd.action \in {"hangup", "decline"} ->
                      [member |-> "Hangup", body |-> <<>>]
                 [] cmd.action = "dial" /\ cmd.number # "absent" ->
                      [member |-> "Dial", body |-> <<cmd.number, "default">>]
                 [] OTHER -> [member |-> "none", body |-> <<>>]
         IN /\ callloop'.call = expected
            /\ callloop'.pc = "call" <=> expected.member # "none"
     /\ (callloop'.call # callloop.call /\ callloop'.call.member # "none")
          => CallTaken
     /\ callloop.pc = "call" =>
          /\ callloop.call.member # "none"
          /\ callloop'.pc \in {"call", "waiting"}
          /\ "call" \in Range(Snapshot(topic_to_queues', "bt.call"))
          /\ callloop'.pc = "waiting" => callloop'.call.member = "none"]_vars

\* a dial command with a number has been taken and its Dial call is awaiting
\* the reply
CallControlWitness ==
  /\ callloop.pc = "call"
  /\ callloop.call = [member |-> "Dial", body |-> <<"555", "default">>]
  /\ queues["call"].items = <<>>

\* ------------------------------------------------- status properties
\* the objects the last poll's reply listed (none for an error reply)
Enumerated == IF statusloop.reply.kind = "reply" THEN statusloop.reply.body ELSE <<>>

\* C19: the status a poll has published lists, in the reply's order and once
\* each, the addresses of exactly the listed objects that have the device
\* interface and a true Connected property, and its current is the first entry
\* of that list, or None when the list is empty.
StatusContent ==
  statusloop.sent # <<>> =>
    LET st == statusloop.sent[1]
        devs == st.connected_devices
    IN /\ {devs[i].address : i \in 1..Len(devs)} =
            {o.Address : o \in {x \in Range(Enumerated) :
                                  x.device /\ x.Connected = "true"}}
       /\ \A i, j \in 1..Len(devs) : i # j => devs[i] # devs[j]
       /\ IsSubseq([i \in 1..Len(devs) |-> devs[i].address],
                   [i \in 1..Len(Enumerated) |-> Enumerated[i].Address])
       /\ st.current = IF devs = <<>> THEN "None" ELSE devs[1]

\* a poll whose reply listed an object that is not a connected device and then
\* a connected device has published that device alone, as current
StatusContentWitness ==
  /\ statusloop.sent # <<>>
  /\ Len(Enumerated) = 2
  /\ ~(Enumerated[1].device /\ Enumerated[1].Connected = "true")
  /\ Enumerated[2].device /\ Enumerated[2].Connected = "true"
  /\ statusloop.sent[1].connected_devices = <<[address |-> Enumerated[2].Address]>>
  /\ statusloop.sent[1].current = [address |-> Enumerated[2].Address]

\* C20: once started the status loop only alternates between sending a poll and
\* sleeping, whatever the poll returned and whatever became of the other loops;
\* from every state after its start a poll is sent again later, and every poll
\* sent is followed by the loop's sleep.
StatusLoopLive ==
  /\ [][statusloop.pc # "off" =>
         /\ statusloop'.pc \in {"start", "polling", "sleeping"}
         /\ (statusloop.pc = "polling" /\ statusloop'.pc # "polling")
              => statusloop'.pc = "sleeping"
         /\ (statusloop.pc \in {"start", "sleeping"} /\ statusloop'.pc # statusloop.pc)
              => statusloop'.pc = "polling"]_vars
  /\ (statusloop.pc \in {"start", "sleeping"}) ~> (statusloop.pc = "polling")
  /\ (statusloop.pc = "polling") ~> (statusloop.pc = "sleeping")

\* the next poll is under way after a poll that raised, with the command loop
\* ended and the task of _run failed
StatusLoopWitness ==
  /\ statusloop.pc = "polling"
  /\ statusloop.reply.kind = "raise"
  /\ cmdloop.pc = "dead"
  /\ mgr.pc = "failed"

\* ------------------------------------------- startup properties
\* C21: when the system bus connect fails, _run stays in its sleep loop: with
\* no system connection the manager is never past the connect, the agent is
\* not exported, no adapter property write is sent, no loop has started, no
\* queue is registered on bt.command or bt.call, nothing is published on
\* bt.status, and from the sleep loop the manager never moves again.
SystemFailureIdles ==
  /\ [](~mgr.sysbus =>
          /\ mgr.pc \in {"init", "connect_system", "idle"}
          /\ ~mgr.session_bus /\ ~mgr.exported /\ mgr.cfg = 0
          /\ cmdloop.pc = "off" /\ callloop.pc = "off" /\ statusloop.pc = "off"
          /\ "cmd" \notin DOMAIN queues /\ "call" \notin DOMAIN queues
          /\ \A t \in {"bt.command", "bt.call"} : t \notin DOMAIN topic_to_queues
          /\ statusloop.sent = <<>>)
  /\ [][mgr.pc = "idle" => mgr' = mgr]_vars
  /\ [][mgr.pc = "connect_system" /\ mgr' # mgr =>
          \/ mgr'.pc = "idle" /\ ~mgr'.sysbus
          \/ mgr'.pc = "connect_session" /\ mgr'.sysbus]_vars

\* the manager sleeps after a failed system bus connect while a command has
\* been published to nobody
SystemFailureWitness ==
  /\ mgr.pc = "idle" /\ ~mgr.sysbus
  /\ env_n > 0
  /\ queues = <<>>

\* C22: without a session connection no sync is ever in progress, no
\* object-transfer call is pending, the contacts are as stored before and the
\* daemon has no session and no file: a sync_contacts command with an address
\* only logs and puts the loop back to waiting.  The session connect's outcome
\* changes nothing else: either way the agent is exported and RegisterAgent
\* sent next, and every other command and every call command is dispatched as
\* its action says.
SessionFailureOnlyStopsSync ==
  /\ [](~mgr.session_bus =>
          /\ cmdloop.pc \notin SyncPcs
          /\ cmdloop.call.member \notin {"CreateSession", "PullAll", "Get",
                                         "RemoveSession"}
          /\ contacts = StoredBefore
          /\ obex = NoObex)
  /\ [][(/\ CmdTaken
         /\ ~mgr.session_bus
         /\ Head(queues["cmd"].items).action = "sync_contacts"
         /\ Head(queues["cmd"].items).address # "absent") =>
          /\ cmdloop'.pc = "waiting" /\ cmdloop'.outcome = "unavailable"
          /\ cmdloop'.call.member = "none"
          /\ <<mgr, callloop, statusloop, bt_devices>>' =
               <<mgr, callloop, statusloop, bt_devices>>]_vars
  /\ [][mgr.pc = "connect_session" /\ mgr' # mgr =>
          /\ mgr'.pc = "register_agent" /\ mgr'.exported
          /\ mgr'.call.member = "RegisterAgent"]_vars
  /\ [][(CmdTaken /\ Head(queues["cmd"].items).action # "sync_contacts") =>
          LET cmd == Head(queues["cmd"].items) IN
          cmdloop'.pc =
            CASE cmd.action \in {"discoverable", "pairable"} -> "call"
              [] cmd.action = "alias" /\ cmd.alias # "absent" -> "call"
              [] cmd.action \in {"connect", "disconnect"}
                   /\ cmd.address # "absent" -> "call"
              [] cmd.action = "trust" /\ cmd.address # "absent" -> "set_trusted"
              [] OTHER -> "waiting"]_vars
  /\ [][(CallTaken /\ Head(queues["call"].items).action
                        \in {"answer", "hangup", "decline"}) =>
          callloop'.pc = "call"]_vars

\* after a failed session connect the agent is registered, the adapter
\* configured, bt.status published, and a sync_contacts command has been
\* turned down
SessionFailureWitness ==
  /\ ~mgr.session_bus /\ mgr.pc = "running"
  /\ mgr.agent = "registered" /\ mgr.config = "done"
  /\ cmdloop.pc = "waiting" /\ cmdloop.outcome = "unavailable"
  /\ callloop.pc = "waiting"
  /\ statusloop.sent # <<>>

\* C23: a RegisterAgent failure is followed by the first adapter property
\* write; from the configuration _run goes nowhere but to the next write or,
\* after the last write or a failed one, to gather(), which starts the three
\* loops; so once the system connection is there, a failing step never leaves
\* the loops unstarted.
StartupContinues ==
  /\ [][mgr.pc = "register_agent" /\ mgr' # mgr =>
          \/ mgr'.pc = "default_agent" /\ mgr'.agent = "registered"
          \/ /\ mgr'.pc = "configure" /\ mgr'.agent = "failed"
             /\ mgr'.call.member = "Set" /\ mgr'.call.body[2] = "Powered"]_vars
  /\ [](mgr.agent = "failed" => mgr.pc \in {"configure", "running", "failed"})
  /\ [][mgr.pc = "configure" /\ mgr' # mgr =>
          \/ mgr'.pc = "configure" /\ mgr'.cfg = mgr.cfg + 1
          \/ /\ mgr'.pc = "running"
             /\ cmdloop'.pc = "start" /\ callloop'.pc = "start"
             /\ statusloop'.pc = "start"]_vars
  /\ [](mgr.config = "failed" =>
          /\ mgr.pc \in {"running", "failed"}
          /\ cmdloop.pc # "off" /\ callloop.pc # "off" /\ statusloop.pc # "off")

\* the agent registration and an adapter property write have failed and the
\* three loops run: two are subscribed and the third has published
StartupContinuesWitness ==
  /\ mgr.agent = "failed" /\ mgr.config = "failed"
  /\ "cmd" \in Range(Snapshot(topic_to_queues, "bt.command"))
  /\ "call" \in Range(Snapshot(topic_to_queues, "bt.call"))
  /\ statusloop.sent # <<>>

\* ------------------------------------------- contact sync properties
\* the (name, number) pairs of a list of contacts
Pairs(rows) == {<<rows[i].name, rows[i].number>> : i \in 1..Len(rows)}

\* C24: the step in which replace_contacts completes for device D, in a sync
\* whose transfer ended complete and whose file parsed to the list P, leaves as
\* D's stored contacts exactly the (name, number) pairs of P, none of the rows D
\* had before, and the rows of every other device as they were.
ContactReplace ==
  [][(/\ cmdloop.pc = "sync_store" /\ cmdloop.transfer = "complete"
      /\ cmdloop'.pc = "waiting" /\ cmdloop'.outcome = "synced") =>
      LET D == cmdloop.cmd.address
          P == cmdloop.parsed
      IN /\ Pairs(contacts'[D]) = Pairs(P)
         /\ \A i \in 1..Len(contacts[D]) :
              <<contacts[D][i].name, contacts[D][i].number>> \notin Pairs(P) =>
                contacts[D][i] \notin Range(contacts'[D])
         /\ \A a \in Addresses \ {D} : contacts'[a] = contacts[a]]_vars

\* a sync for AA whose transfer completed has replaced AA's stored contact by
\* the parsed one and left BB's
ContactReplaceWitness ==
  /\ cmdloop.pc = "waiting" /\ cmdloop.outcome = "synced"
  /\ cmdloop.transfer = "complete"
  /\ contacts["AA"] = <<[name |-> "Ann", number |-> "1"]>>
  /\ contacts["BB"] = <<[name |-> "Old", number |-> "9"]>>

\* C25: when no sync is in progress, the object-transfer daemon holds no
\* session that a sync created: each was removed before its sync finished.
SessionTeardown ==
  cmdloop.pc \notin SyncPcs => obex.sessions = 0

SyncAbortsOnErrorReply ==
  /\ [][(/\ cmdloop'.outcome # cmdloop.outcome
         /\ cmdloop'.outcome \in {"create_failed", "pull_failed"}) =>
          /\ cmdloop'.pc = "waiting"
          /\ contacts' = contacts
          /\ cmdloop'.outcome = "create_failed" => cmdloop.pc = "sync_create"
          /\ cmdloop'.outcome = "pull_failed" => cmdloop.pc = "sync_remove"]_vars
  /\ [](cmdloop.pc = "sync_remove" =>
          cmdloop.call = [member |-> "RemoveSession", path |-> <<"/org/bluez/obex">>,
                          body |-> <<"session">>])
  /\ [][cmdloop'.pc = "sync_remove" /\ cmdloop.pc # "sync_remove" =>
          cmdloop.pc = "sync_pull" /\ contacts' = contacts]_vars
  /\ [][cmdloop.pc \in {"sync_create", "sync_pull", "sync_remove"} =>
          contacts' = contacts]_vars
  /\ [][cmdloop.pc = "sync_pull" /\ cmdloop'.pc = "waiting" =>
          cmdloop'.outcome = "sync_failed"]_vars

\* a sync has ended after an error reply to PullAll: the session it created
\* is removed and the contacts are as they were
SyncAbortWitness ==
  /\ cmdloop.pc = "waiting" /\ cmdloop.outcome = "pull_failed"
  /\ obex.sessions = 0
  /\ contacts = StoredBefore

\* C28: no two stored contacts of one device have the same name and the same
\* number.
NoDuplicateContacts ==
  \A a \in Addresses : \A i, j \in 1..Len(contacts[a]) :
    (contacts[a][i].name = contacts[a][j].name
       /\ contacts[a][i].number = contacts[a][j].number) => i = j

\* ------------------------------------------- protocol call properties
\* the adapter property writes that are pending or were made directly
PropertyWrites == {r \in {mgr.call, cmdloop.call, probe.request} : r.member = "Set"}

\* C29: every adapter property write carries its value under the signature of
\* the value's type: a bool under "b", an int that is not a bool under "u",
\* both unchanged, and any other value under "s" as its str() text; no bool is
\* carried under "u".  The writes of the startup and of the command loop carry
\* True as a bool, the timeout 0 as an unsigned and the alias as a string.
TypedPropertyWrite ==
  /\ \A r \in PropertyWrites :
       /\ Len(r.body) = 5 /\ r.body[1] = "org.bluez.Adapter1"
       /\ r.body[3] \in {"b", "u", "s"}
       /\ r.body[4] = "bool" <=> r.body[3] = "b"
       /\ r.body[4] = "int" <=> r.body[3] = "u"
       /\ r.body[4] = "str" <=> r.body[3] = "s"
  /\ probe.request.member = "Set" =>
       LET v == probe.value
           sent == SubSeq(probe.request.body, 3, 5)
       IN CASE v.type = "bool" -> sent = <<"b", "bool", v.repr>>
            [] v.type = "int" -> sent = <<"u", "int", v.repr>>
            [] OTHER -> sent = <<"s", "str", v.repr>>
  /\ \A r \in PropertyWrites \cap {mgr.call, cmdloop.call} :
       CASE r.body[2] \in {"Powered", "Pairable", "Discoverable"} ->
              SubSeq(r.body, 3, 5) = <<"b", "bool", "True">>
         [] r.body[2] = "DiscoverableTimeout" ->
              SubSeq(r.body, 3, 5) = <<"u", "int", "0">>
         [] r.body[2] = "Alias" -> SubSeq(r.body, 3, 5) = <<"s", "str", "Car">>
         [] OTHER -> FALSE

\* a direct write of False has gone out as a boolean while the startup's
\* write of the timeout 0 is pending as an unsigned
TypedWriteWitness ==
  /\ probe.value = [type |-> "bool", repr |-> "False"]
  /\ probe.request.body = <<"org.bluez.Adapter1", "Pairable", "b", "bool", "False">>
  /\ mgr.pc = "configure"
  /\ mgr.call.body = <<"org.bluez.Adapter1", "DiscoverableTimeout", "u", "int", "0">>

\* C30: the Connect or Disconnect call pending for a connect or disconnect
\* command goes to the object path made of the adapter path, "/dev_", and the
\* characters of the command's address in order, each ':' replaced by '_' and
\* every other character as it is; the path depends on nothing but the address.
DevicePathDerivation ==
  (cmdloop.pc = "call" /\ cmdloop.cmd.action \in {"connect", "disconnect"}) =>
    LET t == IF cmdloop.cmd.address = "AA" THEN probe.text
             ELSE <<"B", "B", ":", "0", "2">>
        path == cmdloop.call.path
    IN /\ cmdloop.call.member =
            (IF cmdloop.cmd.action = "connect" THEN "Connect" ELSE "Disconnect")
       /\ cmdloop.call.body = <<>>
       /\ Len(path) = 2 + Len(t)
       /\ path[1] = "/org/bluez/hci0" /\ path[2] = "/dev_"
       /\ \A i \in 1..Len(t) : path[2 + i] = (IF t[i] = ":" THEN "_" ELSE t[i])

\* a disconnect command for an address with two colons is awaiting the reply
\* of its call to the path with both replaced
DevicePathWitness ==
  /\ cmdloop.pc = "call" /\ cmdloop.cmd.action = "disconnect"
  /\ cmdloop.cmd.address = "AA"
  /\ probe.text = <<":", "a", ":">>
  /\ cmdloop.call = [member |-> "Disconnect",
                     path |-> <<"/org/bluez/hci0", "/dev_", "_", "a", "_">>,
                     body |-> <<>>]

\* ------------------------------------------- queue capacity (SpecBus)
\* C32: in every reachable state the number of events pending in a
\* subscription's queue is at most the capacity passed to subscribe, for
\* every capacity >= 0.  Violated: asyncio.Queue(maxsize=0) is unbounded, so
\* a subscription made with capacity 0 holds every event published to it.
BoundedQueue ==
  \A q \in DOMAIN queues : Len(queues[q].items) <= queues[q].maxsize

CancelledApprovalWait ==
  [][\A c \in Callbacks :
      (cb[c].pc = "waiting" /\ ~cb[c].cancelled /\ cb'[c].cancelled) =>
        /\ cb'[c].pc = "done"
        /\ cb'[c].result = "Rejected"
        /\ cb'[c].ret = "none"
        /\ bt_devices' = bt_devices
        /\ ~StillSubscribed(c)
        /\ c \notin DOMAIN queues']_vars

\* a decision for a device with an untrusted row was cancelled while a response
\* for it was already queued: the callback was rejected, the row is untrusted
\* and its queue is gone
CancelledWaitWitness ==
  \E c \in Callbacks :
    /\ cb[c].pc = "done" /\ cb[c].cancelled /\ cb[c].result = "Rejected"
    /\ cb[c].address \in DOMAIN bt_devices /\ ~bt_devices[cb[c].address]
    /\ c \notin Range(Snapshot(topic_to_queues, "bt.pair_response"))
    /\ env_n > 0

\* C39: the step in which a decision publishes its bt.pair_request is the step
\* that registers its bt.pair_response queue, so no other activity runs in
\* between; every bt.pair_response published while the decision is pending finds
\* that queue registered and is appended to it unless the queue is full.
NoLostApproval ==
  [][\A c \in Callbacks :
      /\ cb'[c].requested # cb[c].requested =>
           /\ cb'[c].pc = "waiting"
           /\ StillSubscribed(c)
           /\ c \notin DOMAIN queues
           /\ queues'[c].items = <<>>
      /\ (cb[c].pc = "waiting" /\ env_n' # env_n) =>
           /\ c \in Range(Snapshot(topic_to_queues, "bt.pair_response"))
           /\ \E ev \in Responses :
                queues'[c].items = IF Full(queues[c]) THEN queues[c].items
                                   ELSE Append(queues[c].items, ev)
           /\ Len(queues'[c].items) > Len(queues[c].items) \/ Full(queues[c])]_vars

\* a response for the address of a pending decision is waiting in its queue
ApprovalQueuedWitness ==
  \E c \in Callbacks :
    /\ cb[c].pc = "waiting"
    /\ Len(cb[c].requested) = 1
    /\ queues[c].items # <<>>
    /\ Head(queues[c].items).address = cb[c].address

RECURSIVE FirstFor(_, _)
\* the first queued response whose address is a: a sequence of at most one
FirstFor(items, a) ==
  IF items = <<>> THEN <<>>
  ELSE IF Head(items).address = a THEN <<Head(items)>>
  ELSE FirstFor(Tail(items), a)

\* C40: two pending decisions for the same address X each have their own queue
\* registered on bt.pair_response, and a published response is appended to
\* both.  The first response for X that reaches a pending decision's queue
\* stays the first one until the decision takes it, and that response alone
\* decides the outcome (approved: set_bt_trusted and success, otherwise
\* Rejected), so one response resolves both decisions alike.  Once a decision is
\* resolved no later response is taken from its queue, changes its record or,
\* in the publishing step, the trust table.
ConcurrentDecisions ==
  [][/\ \A c, d \in Callbacks :
          (/\ c # d
           /\ cb[c].pc = "waiting" /\ cb[d].pc = "waiting"
           /\ cb[c].address = cb[d].address) =>
            /\ c \in Range(Snapshot(topic_to_queues, "bt.pair_response"))
            /\ d \in Range(Snapshot(topic_to_queues, "bt.pair_response"))
            /\ env_n' # env_n =>
                 \E ev \in Responses :
                   /\ queues'[c].items = Append(queues[c].items, ev)
                   /\ queues'[d].items = Append(queues[d].items, ev)
     /\ \A c \in Callbacks :
          LET first == FirstFor(queues[c].items, cb[c].address) IN
          /\ (cb[c].pc = "waiting" /\ ~cb'[c].cancelled) =>
               IF first = <<>>
               THEN /\ cb'[c].pc = "waiting"
                    /\ env_n' # env_n =>
                         \E ev \in Responses :
                           FirstFor(queues'[c].items, cb[c].address) =
                             IF ev.address = cb[c].address THEN <<ev>> ELSE <<>>
               ELSE \/ /\ cb'[c].pc = "waiting"
                       /\ FirstFor(queues'[c].items, cb[c].address) = first
                    \/ /\ cb'[c].resolver = first
                       /\ cb'[c].pc = IF first[1].approved = "true"
                                      THEN "set_trusted" ELSE "done"
                       /\ cb'[c].pc = "done" => cb'[c].result = "Rejected"
          /\ cb[c].resolver # <<>> =>
               /\ cb'[c].resolver = cb[c].resolver
               /\ c \in DOMAIN queues' =>
                    Len(queues'[c].items) >= Len(queues[c].items)
               /\ cb[c].pc = "done" => cb'[c] = cb[c]
               /\ cb'[c].pc = "done" =>
                    cb'[c].result = IF cb[c].resolver[1].approved = "true"
                                    THEN "ok" ELSE "Rejected"
               /\ env_n' # env_n => (cb'[c] = cb[c] /\ bt_devices' = bt_devices)]_vars

\* two decisions for the same address were resolved by the same response and
\* returned alike; the other response the consumer published for that address
\* is left in the queue of a resolved decision, without effect
ConcurrentDecisionsWitness ==
  \E c, d \in Callbacks :
    /\ c # d
    /\ cb[c].pc = "done" /\ cb[d].pc = "done"
    /\ cb[c].address = cb[d].address
    /\ cb[c].resolver # <<>> /\ cb[c].resolver = cb[d].resolver
    /\ cb[c].result = cb[d].result
    /\ env_n = MaxResponses
    /\ c \in DOMAIN queues
    /\ queues[c].items # <<>>
    /\ Head(queues[c].items).address = cb[c].address
    /\ Head(queues[c].items).approved # cb[c].resolver[1].approved

\* ------------------------------------------------- stop() (SpecStop)
\* C31: once stop() has returned, the queues of the command loop and of the
\* call-control loop are not registered on bt.command and bt.call, and no
\* step changes a loop's state again: no command is taken, no protocol call
\* is sent or answered, no bt.status is published, and nothing the consumers
\* publish reaches a queue, the trust table, the contacts or the transfer
\* daemon, wherever the three loops were when stop() was called.
StopEndsLoops ==
  [][mgr.pc = "stopped" =>
      /\ "cmd" \notin Range(Snapshot(topic_to_queues, "bt.command"))
      /\ "call" \notin Range(Snapshot(topic_to_queues, "bt.call"))
      /\ {"cmd", "call"} \cap DOMAIN queues = {}
      /\ cmdloop.pc = "cancelled" /\ callloop.pc = "cancelled"
      /\ statusloop.pc = "cancelled"
      /\ cmdloop' = cmdloop /\ callloop' = callloop /\ statusloop' = statusloop
      /\ mgr' = mgr
      /\ queues' = queues
      /\ UNCHANGED <<bt_devices, contacts, obex>>]_vars

\* stop() has returned after cancelling the command loop in the middle of a
\* command (awaiting the reply to a call), the call-control loop in its wait
\* for an event and the status loop in its sleep, and the consumers have gone
\* on publishing
StopWitness ==
  /\ mgr.pc = "stopped"
  /\ mgr.at = <<"call", "waiting", "sleeping">>
  /\ env_n = MaxStopEvents

\* --------------------------------- loop independence (SpecIndependentLive)
\* the command loop is suspended inside a connect call or a contact sync
CmdSuspended == cmdloop.pc \in {"call"} \cup SyncPcs

\* the call-control loop waits in queue.get() and a command is queued for it
CallPending ==
  /\ callloop.pc = "waiting"
  /\ "call" \in DOMAIN queues
  /\ queues["call"].items # <<>>

\* C35: whenever the command loop is suspended inside a long command, also one
\* it never comes back from, a call command that is queued is taken and its
\* call sent, the status loop sends its next poll after its sleep and every
\* poll ends in a bt.status publication; and no step of the call-control loop
\* or of the status loop then changes the command loop's state.
LoopIndependence ==
  /\ (CmdSuspended /\ CallPending) ~> (callloop.pc = "call")
  /\ (CmdSuspended /\ statusloop.pc \in {"start", "sleeping"})
        ~> (statusloop.pc = "polling")
  /\ (CmdSuspended /\ statusloop.pc = "polling")
        ~> (statusloop.pc = "sleeping" /\ statusloop.sent # <<>>)
  /\ [][(CmdSuspended /\ (callloop' # callloop \/ statusloop' # statusloop)) =>
          cmdloop' = cmdloop]_vars

\* during a contact sync that polls for the end of the transfer, the
\* call-control loop has sent a call and the status loop has published
IndependenceWitness ==
  /\ cmdloop.pc = "sync_wait"
  /\ callloop.pc = "call"
  /\ statusloop.pc = "sleeping" /\ statusloop.sent # <<>>
  /\ env_n = MaxStopEvents

\* ------------------------------------- the status poll (SpecPollLive)
\* the command loop is inside _wait_transfer_complete
Polling == cmdloop.pc \in {"sync_wait", "sync_sleep"}

\* C36: the status poll always ends.  A read that returns complete, error or
\* cancelled ends it at once; any other read, an error reply included, counts
\* as one attempt and is followed by the sleep; after the sleep the next read
\* is sent unless 200 reads have been made, and only then does the poll return
\* without a terminal status.  However the poll returned, the store step
\* replaces the device's contacts by what the file parsed to.
PollTermination ==
  /\ Polling ~> ~Polling
  /\ [][/\ cmdloop'.reads <= PollAttempts
        /\ (cmdloop.pc = "sync_wait" /\ cmdloop' # cmdloop) =>
             /\ cmdloop'.pc # "waiting" => cmdloop'.reads = cmdloop.reads + 1
             /\ cmdloop'.transfer \in TerminalStatuses <=> cmdloop'.pc = "sync_store"
             /\ cmdloop'.transfer \notin TerminalStatuses =>
                  \/ cmdloop'.pc = "sync_sleep"
                  \/ cmdloop'.pc = "waiting" /\ cmdloop'.outcome = "sync_failed"
        /\ (cmdloop.pc = "sync_sleep" /\ cmdloop' # cmdloop) =>
             /\ cmdloop.transfer \notin TerminalStatuses
             /\ cmdloop'.reads = cmdloop.reads
             /\ IF cmdloop.reads = PollAttempts
                THEN cmdloop'.pc = "sync_store" /\ cmdloop'.transfer = "exhausted"
                ELSE cmdloop'.pc = "sync_wait"
        /\ (cmdloop.pc = "sync_store" /\ cmdloop'.outcome = "synced") =>
             contacts' = [contacts EXCEPT ![cmdloop.cmd.address] =
                            InsertOrIgnore(<<>>, cmdloop.parsed)]]_vars

\* a sync whose poll returned after its 200 reads without a terminal status
\* has gone on to replace the contacts of AA
PollExhaustedWitness ==
  /\ cmdloop.pc = "waiting" /\ cmdloop.outcome = "synced"
  /\ cmdloop.transfer = "exhausted"
  /\ contacts["AA"] # StoredBefore["AA"]

\* ------------------------------------ all-or-nothing sync (SpecSync)
\* C37: a device's stored contacts change only in the store step of a sync
\* whose transfer reached status complete; after a transfer that ended in
\* error or cancelled they are as they were.  Violated: the store step runs
\* after every return of the poll and replaces the contacts by whatever the
\* file parsed to, nothing if there is no file.
AllOrNothingSync ==
  [][\A a \in Addresses :
      contacts'[a] # contacts[a] =>
        /\ cmdloop.pc = "sync_store"
        /\ cmdloop.cmd.address = a
        /\ cmdloop.transfer = "complete"]_vars

\* --------------------------------------- vCard parsing (SpecParse)
RECURSIVE FirstValue(_, _)
\* the value of the first line of the record that starts with key, "absent"
\* when the record has no such line
FirstValue(card, key) ==
  IF card = <<>> THEN "absent"
  ELSE IF Head(card)[1] = key THEN Head(card)[Len(Head(card))]
  ELSE FirstValue(Tail(card), key)

\* the record has a begin marker
Begun(card) == \E i \in 1..Len(card) : card[i] = <<"BEGIN", ":", "VCARD">>

\* C38: the parser returns one tuple for every record of the file (the text
\* between end markers) that has a begin marker, in file order, and none for
\* the rest; the tuple's name is the value of the record's FN line and its
\* number the value of the record's first TEL line, in whatever order the two
\* lines stand.  Violated: the scan of a record stops at its first TEL line,
\* so an FN line that follows it is not read and the name is None.
VcardParsing ==
  probe.vcf.called =>
    LET records == SelectSeq(SplitCards(probe.vcf.file, <<>>), Begun)
        result == probe.vcf.result
    IN /\ Len(result) = Len(records)
       /\ \A i \in 1..Len(records) :
            /\ result[i].name = FirstValue(records[i], "FN")
            /\ result[i].number = FirstValue(records[i], "TEL")

====
